---- MODULE Spec2Model ----
(***************************************************************************)
(* Expected-goals (xG) pipeline of the PWHL database: the shot scorer      *)
(* (calculate_xg.py), the skater aggregation, the season-8 estimation      *)
(* (estimate_xg_season8.py) and the goalie GSAx passes (calculate_gsax.py) *)
(* working on the shots, skater_stats and goalie_stats tables.             *)
(*                                                                         *)
(* Arithmetic: the code computes in floating point.  The model is exact    *)
(* fixed point: every xg, goals_above_xg and gsax value is an integer      *)
(* number of millionths of a goal (0.25 is 250000), base rates and         *)
(* multipliers are integer hundredths (0.04 is 4, 1.82 is 182), so that a  *)
(* product base * type * quality is already in millionths.                 *)
(***************************************************************************)
EXTENDS Integers, Sequences, FiniteSets, TLC

VARIABLES shots, skater_stats, goalie_stats, last_op, raised, result, team_stats, teams, columns, pacing, faceoffs, games, head_to_head

vars == <<shots, skater_stats, goalie_stats, last_op, raised, result, team_stats, teams, columns, pacing, faceoffs, games, head_to_head>>

(***************************************************************************)
(* Bounds of the model.                                                    *)
(***************************************************************************)
\* shot_type codes 0..MaxShotType are drawn (1..6 are known to the scorer)
MaxShotType == 7
\* quality codes 0..MaxQuality are drawn (1, 2, 5, 6 are known)
MaxQuality == 6
\* number of event ids of the shots table in the pipeline specification
MaxShots == 2

(***************************************************************************)
(* Values.                                                                 *)
(***************************************************************************)
\* SQL NULL / Python None; every id, code and coordinate is >= 0
NULL == -1
\* the result "TypeError raised" of a Python expression
TypeError == -2
\* one goal in millionths
Unit == 1000000

\* the pass that ran last and its season argument (0 when it takes none)
Op(name, arg) == [name |-> name, arg |-> arg]

\* the value held from a direct call of a function: its name, arguments, value
Returned(fn, args, value) == [fn |-> fn, args |-> args, value |-> value]

NoResult == Returned("none", <<>>, 0)

\* the pacing of the requests to the API, in milliseconds: idle is the time
\* since the latest request was sent (NULL before the first request), gaps
\* lists the times between consecutive requests of the latest routine
Pacing(idle, gaps) == [idle |-> idle, gaps |-> gaps]

NoRequest == Pacing(NULL, <<>>)

\* the columns that the derivation modules add to the tables of schema.sql,
\* as <<table, column>> (calculate_xg.py 80-85, calculate_gsax.py 19,
\* calculate_advanced_stats.py 36-42)
DerivedColumns ==
    { <<"skater_stats", "xg">>, <<"skater_stats", "goals_above_xg">>,
      <<"goalie_stats", "gsax">>,
      <<"team_stats", "corsi_for">>, <<"team_stats", "corsi_against">>,
      <<"team_stats", "corsi_pct">>, <<"team_stats", "pdo">> }

Min(a, b) == IF a <= b THEN a ELSE b
Max(a, b) == IF a >= b THEN a ELSE b

(***************************************************************************)
(* calculate_xg (calculate_xg.py 19-69)                                    *)
(***************************************************************************)
\* mutant: the boundary rows y = 100 and y = 200 fall to the perimeter
base_xg_strict(y) == IF y <= 100 \/ y >= 200 THEN 4 ELSE 12

\* lines 36-41: the zone test "y < 100 or y > 200"
base_xg(y) == IF y < 100 \/ y > 200 THEN 4 ELSE 12

\* mutant: the tip entry of the table is lost, tips count as unknown
type_mult_no_tip(shot_type) ==
    CASE shot_type = 1 -> 140
      [] shot_type = 3 -> 119
      [] shot_type = 4 -> 125
      [] shot_type = 5 -> 125
      [] OTHER -> 100

\* lines 44-52: type_multipliers.get(shot_type, 1.0)
type_mult(shot_type) ==
    CASE shot_type = 1 -> 140
      [] shot_type = 2 -> 100
      [] shot_type = 3 -> 119
      [] shot_type = 4 -> 125
      [] shot_type = 5 -> 125
      [] shot_type = 6 -> 182
      [] OTHER -> 100

\* mutant: the quality table is empty, every quality counts 1.0
quality_mult_flat(quality) == 100

\* lines 57-63: quality_multipliers.get(quality, 1.0)
quality_mult(quality) ==
    CASE quality = 1 -> 115
      [] quality = 2 -> 85
      [] quality = 5 -> 115
      [] quality = 6 -> 85
      [] OTHER -> 100

\* line 69: the cap min(xg, 0.25)
XgCap == 250000

\* mutant: the product is returned without the cap
calculate_xg_uncapped(shot_type, quality, x, y, is_goal) ==
    IF y = NULL THEN TypeError
    ELSE base_xg(y) * type_mult(shot_type) * quality_mult(quality)

\* mutant: the outcome leaks into the score
calculate_xg_leak(shot_type, quality, x, y, is_goal) ==
    IF y = NULL THEN TypeError
    ELSE IF is_goal = 1 THEN XgCap
    ELSE Min(base_xg(y) * type_mult(shot_type) * quality_mult(quality), XgCap)

\* the whole function; comparing None with an int at line 36 raises TypeError
calculate_xg(shot_type, quality, x, y, is_goal) ==
    IF y = NULL THEN TypeError
    ELSE Min(base_xg(y) * type_mult(shot_type) * quality_mult(quality), XgCap)

(***************************************************************************)
(* The shots table: event id -> row.  xg is the column added by            *)
(* calculate_shot_xg (REAL DEFAULT 0).                                     *)
(***************************************************************************)
ShotRow(p, g, t, o, s, x, y, st, q, ig, xg) ==
    [player_id |-> p, goalie_id |-> g, team_id |-> t, opponent_team_id |-> o,
     season_id |-> s, x_location |-> x, y_location |-> y, shot_type |-> st,
     quality |-> q, is_goal |-> ig, xg |-> xg]

\* calculate_shot_xg (calculate_xg.py 91-118): score every shot, then one
\* batch update; an exception in the loop leaves the table as it was
ScoreAll(sh) ==
    IF \E e \in DOMAIN sh :
          calculate_xg(sh[e].shot_type, sh[e].quality, sh[e].x_location,
                       sh[e].y_location, sh[e].is_goal) = TypeError
    THEN sh
    ELSE [e \in DOMAIN sh |->
            [sh[e] EXCEPT !.xg = calculate_xg(sh[e].shot_type, sh[e].quality,
                                              sh[e].x_location, sh[e].y_location,
                                              sh[e].is_goal)]]

ScoreRaises(sh) ==
    \E e \in DOMAIN sh :
        calculate_xg(sh[e].shot_type, sh[e].quality, sh[e].x_location,
                     sh[e].y_location, sh[e].is_goal) = TypeError

calculate_shot_xg ==
    /\ shots' = ScoreAll(shots)
    /\ raised' = ScoreRaises(shots)
    /\ last_op' = Op("calculate_shot_xg", 0)
    /\ UNCHANGED <<skater_stats, goalie_stats, result, team_stats, teams, columns, pacing, faceoffs, games, head_to_head>>

(***************************************************************************)
(* Scorer specification: a two-row shots table whose rows carry the same   *)
(* scoring inputs, drawn from the bounded code and coordinate sets, and    *)
(* independently drawn outcomes; the scoring pass runs on it.              *)
(***************************************************************************)
ShotTypes == (0..MaxShotType) \cup {NULL}
Qualities == (0..MaxQuality) \cup {NULL}
XValues == {50, NULL}
YValues == {99, 100, 101, 150, 199, 200, 201, NULL}

InitXg ==
    /\ \E st \in ShotTypes, q \in Qualities, x \in XValues, y \in YValues,
          g1 \in {0, 1}, g2 \in {0, 1} :
          shots = (1 :> ShotRow(1, 3, 1, 2, 1, x, y, st, q, g1, 0))
               @@ (2 :> ShotRow(1, 3, 1, 2, 1, x, y, st, q, g2, 0))
    /\ skater_stats = <<>>
    /\ goalie_stats = <<>>
    /\ last_op = Op("init", 0)
    /\ raised = FALSE
    /\ result = NoResult
    /\ team_stats = <<>>
    /\ teams = {}
    /\ columns = DerivedColumns
    /\ pacing = NoRequest
    /\ faceoffs = <<>>
    /\ games = <<>>
    /\ head_to_head = <<>>

NextXg == calculate_shot_xg

SpecXg == InitXg /\ [][NextXg]_vars

(***************************************************************************)
(* The aggregate tables.  skater_stats and goalie_stats map the key        *)
(* <<player_id, team_id, season_id>> to a row; the players table gives a   *)
(* position to the players it holds.                                       *)
(***************************************************************************)
SkaterRow(goals, sh) ==
    [goals |-> goals, shots |-> sh, xg |-> 0, goals_above_xg |-> 0,
     faceoff_attempts |-> 0, faceoff_wins |-> 0, faceoff_pct |-> 0]

GoalieRow(gp, sa, ga, sv) ==
    [games_played |-> gp, shots_against |-> sa, goals_against |-> ga,
     save_percentage |-> sv, gsax |-> 0]

\* players.position for the players of the players table
players == (1 :> "F") @@ (2 :> "D")

RECURSIVE Sum(_, _)
\* SQL SUM / Python sum of f over the ids of S
Sum(f, S) ==
    IF S = {} THEN 0
    ELSE LET e == CHOOSE x \in S : TRUE IN f[e] + Sum(f, S \ {e})

XgOf(sh) == [e \in DOMAIN sh |-> sh[e].xg]
GoalOf(sh) == [e \in DOMAIN sh |-> sh[e].is_goal]

(***************************************************************************)
(* scrape_play_by_play (scrape_pwhl.py 597-634): every row of the shots    *)
(* file is stored with INSERT OR REPLACE under its event id; the xg column *)
(* is not in the column list, so a stored row holds the column default 0.  *)
(* The same routine stores the rows of faceoffs.csv (lines 711-741).       *)
(***************************************************************************)
\* the rows the source can deliver for an event id.  Event 1: a tip by
\* player 1 for team 1 on goalie 3 (quality goal, y 150), or the same event
\* corrected to an empty-net wrist shot of player 2.  Event 2: a perimeter
\* wrist shot of player 1 for team 2 on goalie 3 (now of team 1), a second
\* shot with the key of event 1, or a season-8 shot.  Later events: a
\* season-8 shot of player 1.
Feed(e) ==
    IF e = 1 THEN { ShotRow(1, 3,    1, 2, 1, 50, 150, 6, 5, 1, 0),
                    ShotRow(2, NULL, 1, 2, 1, 50, 150, 2, 2, 1, 0) }
    ELSE IF e = 2 THEN { ShotRow(1, 3, 2, 1, 1, 50,  99, 2, 2, 0, 0),
                         ShotRow(1, 3, 1, 2, 1, 50, 150, 2, 2, 0, 0),
                         ShotRow(1, 3, 1, 2, 8, 50, 150, 6, 5, 0, 0) }
    ELSE { ShotRow(1, 3, 1, 2, 8, 50, 150, 6, 5, 0, 0) }

EventIds == 1..MaxShots

\* the files the source can deliver: the shots file is cumulative, it holds
\* a row for each of the events 1..n published so far
ShotFiles ==
    { f \in UNION { [1..n -> UNION {Feed(e) : e \in EventIds}] : n \in EventIds } :
        \A e \in DOMAIN f : f[e] \in Feed(e) }

\* lines 600-632: one INSERT OR REPLACE per row of the file
StoreShots(sh, csv) ==
    [e \in DOMAIN sh \cup DOMAIN csv |->
        IF e \in DOMAIN csv THEN csv[e] ELSE sh[e]]

\* a row of faceoffs.csv: the fields scrape_play_by_play reads, home_win as
\* the string of the file
FaceoffRecord(season_id, home_player_id, visitor_player_id, home_win) ==
    [season_id |-> season_id, home_player_id |-> home_player_id,
     visitor_player_id |-> visitor_player_id, home_win |-> home_win]

\* the faceoff the source publishes with event e: player 1 (home) beats
\* player 2, then player 1 (away) beats player 2, then player 2 wins at home
FaceoffFeed(e) ==
    IF e = 1 THEN FaceoffRecord(1, 1, 2, "1")
    ELSE IF e = 2 THEN FaceoffRecord(1, 2, 1, "0")
    ELSE FaceoffRecord(1, 2, 1, "1")

\* faceoffs.csv of the publication that holds the events 1..n
FaceoffFile(n) == [e \in 1..n |-> FaceoffFeed(e)]

\* scrape_pwhl.py 715-739: one INSERT OR REPLACE per row under its id; the
\* column list has no home_team_id and no away_team_id, so a stored row has
\* no value there
StoreFaceoffs(fo, csv) ==
    [e \in DOMAIN fo \cup DOMAIN csv |->
        IF e \in DOMAIN csv
        THEN [season_id |-> csv[e].season_id,
              home_player_id |-> csv[e].home_player_id,
              away_player_id |-> csv[e].visitor_player_id,
              home_win |-> IF csv[e].home_win = "1" THEN 1 ELSE 0,
              home_team_id |-> NULL, away_team_id |-> NULL]
        ELSE fo[e]]

\* the shots file and the faceoffs file are read from the same publication
scrape_play_by_play ==
    /\ \E csv \in ShotFiles :
          /\ shots' = StoreShots(shots, csv)
          /\ faceoffs' = StoreFaceoffs(faceoffs, FaceoffFile(Len(csv)))
          /\ last_op' = Op("scrape_play_by_play", 0)
    /\ raised' = FALSE
    /\ UNCHANGED <<skater_stats, goalie_stats, result, team_stats, teams, columns, pacing, games, head_to_head>>

(***************************************************************************)
(* aggregate_xg_by_player (calculate_xg.py 131-171)                        *)
(***************************************************************************)
\* mutant: the grouping and the update drop the team
SkaterGroup_no_team(k, sh) ==
    {e \in DOMAIN sh : sh[e].player_id = k[1] /\ sh[e].season_id = k[3]}

\* lines 140-150 and 164: the shots of the group that updates the row k
\* (GROUP BY player_id, team_id, season_id; WHERE the three columns match)
SkaterGroup(k, sh) ==
    {e \in DOMAIN sh : /\ sh[e].player_id = k[1]
                       /\ sh[e].team_id = k[2]
                       /\ sh[e].season_id = k[3]}

\* mutant: the difference is taken the other way round
goals_above_xg_swapped(actual_goals, total_xg) == total_xg - actual_goals * Unit

\* line 159: goals_above_xg = actual_goals - total_xg
goals_above_xg(actual_goals, total_xg) == actual_goals * Unit - total_xg

\* mutant: no clearing, the totals are added to the stored values
AggregateXg_accumulate(ss, sh) ==
    [k \in DOMAIN ss |->
        LET g == SkaterGroup(k, sh)
        IN  IF g = {} THEN ss[k]
            ELSE [ss[k] EXCEPT
                    !.xg = @ + Sum(XgOf(sh), g),
                    !.goals_above_xg =
                        @ + goals_above_xg(Sum(GoalOf(sh), g), Sum(XgOf(sh), g))]]

\* mutant: the difference is taken from the row's stored goals
AggregateXg_stored_goals(ss, sh) ==
    [k \in DOMAIN ss |->
        LET g == SkaterGroup(k, sh)
        IN  IF g = {} THEN [ss[k] EXCEPT !.xg = 0, !.goals_above_xg = 0]
            ELSE [ss[k] EXCEPT
                    !.xg = Sum(XgOf(sh), g),
                    !.goals_above_xg =
                        goals_above_xg(ss[k].goals, Sum(XgOf(sh), g))]]

\* line 136 clears every row, lines 157-165 write the rows that have a group
AggregateXg(ss, sh) ==
    [k \in DOMAIN ss |->
        LET g == SkaterGroup(k, sh)
        IN  IF g = {} THEN [ss[k] EXCEPT !.xg = 0, !.goals_above_xg = 0]
            ELSE [ss[k] EXCEPT
                    !.xg = Sum(XgOf(sh), g),
                    !.goals_above_xg =
                        goals_above_xg(Sum(GoalOf(sh), g), Sum(XgOf(sh), g))]]

aggregate_xg_by_player ==
    /\ skater_stats' = AggregateXg(skater_stats, shots)
    /\ last_op' = Op("aggregate_xg_by_player", 0)
    /\ raised' = FALSE
    /\ UNCHANGED <<shots, goalie_stats, result, team_stats, teams, columns, pacing, faceoffs, games, head_to_head>>

(***************************************************************************)
(* xGEstimator (estimate_xg_season8.py)                                    *)
(***************************************************************************)
\* line 49
default_rate == 100000

\* AVG(1.0 * goals / NULLIF(shots, 0)) over the rows R, in millionths
AvgConversion(ss, R) ==
    Sum([k \in R |-> (ss[k].goals * Unit) \div ss[k].shots], R) \div Cardinality(R)

\* lines 26-36: the rows of seasons 1 and 5 with shots, joined with players
HistoricalRows(ss) ==
    {k \in DOMAIN ss : /\ k[3] \in {1, 5} /\ ss[k].shots > 0
                       /\ k[1] \in DOMAIN players}

\* lines 86-93 and 55-58: the volume bucket of a shot count
Bucket(n) ==
    IF n < 20 THEN "low" ELSE IF n < 50 THEN "medium"
    ELSE IF n < 80 THEN "high" ELSE "very_high"

\* lines 38-45 and 83: the historical rate of a position; a rate of 0 is
\* falsy and replaced by 0.10, a position without rows gets the default
position_rate(ss, position) ==
    LET R == {k \in HistoricalRows(ss) : players[k[1]] = position}
    IN  IF R = {} THEN default_rate
        ELSE IF AvgConversion(ss, R) = 0 THEN default_rate
        ELSE AvgConversion(ss, R)

\* lines 52-69 and 95: the historical rate of a volume bucket
volume_rate(ss, bucket) ==
    LET R == {k \in DOMAIN ss : /\ k[3] \in {1, 5} /\ ss[k].shots > 0
                                /\ Bucket(ss[k].shots) = bucket}
    IN  IF R = {} THEN default_rate
        ELSE IF AvgConversion(ss, R) = 0 THEN default_rate
        ELSE AvgConversion(ss, R)

regression_two_step(n) == IF n < 20 THEN 8 ELSE 6

\* lines 108-113: the regression factor in tenths
regression(n) == IF n < 20 THEN 8 ELSE IF n < 50 THEN 6 ELSE 4

\* lines 72-118
estimate_xg_for_player(ss, n, goals, position) ==
    IF n = 0 THEN 0
    ELSE LET expected_rate == (position_rate(ss, position) * 6
                               + volume_rate(ss, Bucket(n)) * 4) \div 10
             base == n * expected_rate
         IN  Max(0, (base * regression(n)
                     + goals * Unit * (10 - regression(n))) \div 10)

\* lines 125-156: the season-8 rows with shots whose player is in players
EstimateSeason8(ss) ==
    [k \in DOMAIN ss |->
        IF k[3] = 8 /\ ss[k].shots > 0 /\ k[1] \in DOMAIN players
        THEN LET xg == estimate_xg_for_player(ss, ss[k].shots, ss[k].goals,
                                              players[k[1]])
             IN  [ss[k] EXCEPT !.xg = xg,
                               !.goals_above_xg = ss[k].goals * Unit - xg]
        ELSE ss[k]]

\* xGEstimator() loads the rates, run() estimates season 8 (lines 13-19, 220-224)
xGEstimator_run ==
    /\ skater_stats' = EstimateSeason8(skater_stats)
    /\ last_op' = Op("estimate_season_8_xg", 0)
    /\ raised' = FALSE
    /\ UNCHANGED <<shots, goalie_stats, result, team_stats, teams, columns, pacing, faceoffs, games, head_to_head>>

\* a direct call estimate_xg_for_player(shots, goals, position) on an
\* estimator constructed over the current store
EstShots == {0, 1, 19, 20, 49, 50, 79, 80}
EstGoals == {0, 1, 3}
EstPositions == {"F", "D", "G"}

call_estimate_xg_for_player ==
    /\ \E n \in EstShots, goals \in EstGoals, position \in EstPositions :
          result' = Returned("estimate_xg_for_player", <<n, goals, position>>,
                             estimate_xg_for_player(skater_stats, n, goals, position))
    /\ last_op' = Op("estimate_xg_for_player", 0)
    /\ raised' = FALSE
    /\ UNCHANGED <<shots, skater_stats, goalie_stats, team_stats, teams, columns, pacing, faceoffs, games, head_to_head>>

\* Estimator specification: historical skater rows of seasons 1 and 5 drawn
\* from a few counting-stat lines (a forward line always present, a second
\* forward line and a defence line optional), then direct calls.
HistoricalLines == {<<0, 10>>, <<2, 10>>, <<1, 25>>, <<4, 60>>, <<9, 90>>}
NoLine == <<NULL, NULL>>

InitEst ==
    /\ \E a \in HistoricalLines, b \in HistoricalLines \cup {NoLine},
          d \in HistoricalLines \cup {NoLine} :
          skater_stats =
              [k \in {<<1, 1, 1>>}
                      \cup (IF b = NoLine THEN {} ELSE {<<1, 2, 5>>})
                      \cup (IF d = NoLine THEN {} ELSE {<<2, 1, 1>>}) |->
                  IF k = <<1, 1, 1>> THEN SkaterRow(a[1], a[2])
                  ELSE IF k = <<1, 2, 5>> THEN SkaterRow(b[1], b[2])
                  ELSE SkaterRow(d[1], d[2])]
    /\ shots = <<>>
    /\ goalie_stats = <<>>
    /\ last_op = Op("init", 0)
    /\ raised = FALSE
    /\ result = NoResult
    /\ team_stats = <<>>
    /\ teams = {}
    /\ columns = DerivedColumns
    /\ pacing = NoRequest
    /\ faceoffs = <<>>
    /\ games = <<>>
    /\ head_to_head = <<>>

NextEst == call_estimate_xg_for_player

SpecEst == InitEst /\ [][NextEst]_vars

(***************************************************************************)
(* GSAxCalculator (calculate_gsax.py)                                      *)
(***************************************************************************)
\* mutant: the opponent team is dropped from the grouping and the update
GoalieGroup_no_team(k, sh) ==
    {e \in DOMAIN sh : /\ sh[e].goalie_id # NULL
                       /\ sh[e].goalie_id = k[1]
                       /\ sh[e].season_id = k[3]}

\* lines 37-48 and 68: the shots of the group that updates the row k
\* (goalie_id IS NOT NULL, GROUP BY goalie_id, opponent_team_id)
GoalieGroup(k, sh) ==
    {e \in DOMAIN sh : /\ sh[e].goalie_id # NULL
                       /\ sh[e].goalie_id = k[1]
                       /\ sh[e].opponent_team_id = k[2]
                       /\ sh[e].season_id = k[3]}

\* mutant: a group without a goalie_stats row gets a row
GsaxFromShots_upsert(gs, sh, season_id) ==
    LET groups == {<<sh[e].goalie_id, sh[e].opponent_team_id, season_id>> :
                      e \in {x \in DOMAIN sh : /\ sh[x].goalie_id # NULL
                                                /\ sh[x].season_id = season_id}}
    IN  [k \in DOMAIN gs \cup groups |->
            IF GoalieGroup(k, sh) # {}
            THEN [(IF k \in DOMAIN gs THEN gs[k] ELSE GoalieRow(0, 0, 0, 0))
                    EXCEPT !.gsax = Sum(XgOf(sh), GoalieGroup(k, sh))
                                    - Unit * Sum(GoalOf(sh), GoalieGroup(k, sh))]
            ELSE gs[k]]

\* lines 25-71: rows of the season that have a group are written, every
\* other row keeps its gsax
GsaxFromShots(gs, sh, season_id) ==
    [k \in DOMAIN gs |->
        LET g == GoalieGroup(k, sh)
        IN  IF k[3] = season_id /\ g # {}
            THEN [gs[k] EXCEPT !.gsax = Sum(XgOf(sh), g) - Sum(GoalOf(sh), g) * Unit]
            ELSE gs[k]]

\* line 86: "or 0.91"
DefaultSavePct == 910000

league_avg_sv_pct_all_games(gs) ==
    LET R == {k \in DOMAIN gs : k[3] \in {1, 5}}
        avg == Sum([k \in R |-> gs[k].save_percentage], R) \div Cardinality(R)
    IN  IF R = {} THEN DefaultSavePct
        ELSE IF avg = 0 THEN DefaultSavePct ELSE avg

\* lines 81-86: AVG(save_percentage) over seasons 1 and 5 with 5 games or
\* more; no row (NULL) or an average of 0 is falsy and replaced by 0.91
league_avg_sv_pct(gs) ==
    LET R == {k \in DOMAIN gs : k[3] \in {1, 5} /\ gs[k].games_played >= 5}
        avg == Sum([k \in R |-> gs[k].save_percentage], R) \div Cardinality(R)
    IN  IF R = {} THEN DefaultSavePct
        ELSE IF avg = 0 THEN DefaultSavePct ELSE avg

\* lines 74-121
EstimateGsax(gs) ==
    [k \in DOMAIN gs |->
        IF k[3] = 8 /\ gs[k].shots_against > 0
        THEN [gs[k] EXCEPT !.gsax = gs[k].shots_against * (Unit - league_avg_sv_pct(gs))
                                     - gs[k].goals_against * Unit]
        ELSE gs[k]]

\* lines 187-195: seasons 1 and 5 from shots, season 8 estimated
GsaxRun(gs, sh) == EstimateGsax(GsaxFromShots(GsaxFromShots(gs, sh, 1), sh, 5))

\* the seasons calculate_gsax_from_shots is called with
GsaxSeasons == {1, 5, 8}

calculate_gsax_from_shots ==
    /\ \E season_id \in GsaxSeasons :
          /\ goalie_stats' = GsaxFromShots(goalie_stats, shots, season_id)
          /\ last_op' = Op("calculate_gsax_from_shots", season_id)
    /\ raised' = FALSE
    /\ UNCHANGED <<shots, skater_stats, result, team_stats, teams, columns, pacing, faceoffs, games, head_to_head>>

estimate_gsax_for_season_8 ==
    /\ goalie_stats' = EstimateGsax(goalie_stats)
    /\ last_op' = Op("estimate_gsax_for_season_8", 0)
    /\ raised' = FALSE
    /\ UNCHANGED <<shots, skater_stats, result, team_stats, teams, columns, pacing, faceoffs, games, head_to_head>>

GSAxCalculator_run ==
    /\ goalie_stats' = GsaxRun(goalie_stats, shots)
    /\ last_op' = Op("GSAxCalculator.run", 0)
    /\ raised' = FALSE
    /\ UNCHANGED <<shots, skater_stats, result, team_stats, teams, columns, pacing, faceoffs, games, head_to_head>>

(***************************************************************************)
(* Pipeline specification: the store after ingestion of the counting stats *)
(* (derived columns at their default 0, no shots yet), then any sequence   *)
(* of shot ingestion and derivation passes.                                *)
(***************************************************************************)
Init ==
    /\ shots = <<>>
    /\ skater_stats = (<<1, 1, 1>> :> SkaterRow(2, 10))
                   @@ (<<1, 2, 1>> :> SkaterRow(1, 25))
                   @@ (<<2, 1, 1>> :> SkaterRow(0, 4))
                   @@ (<<1, 1, 8>> :> SkaterRow(3, 30))
                   @@ (<<2, 2, 8>> :> SkaterRow(1, 0))
                   @@ (<<4, 1, 8>> :> SkaterRow(1, 5))
    /\ goalie_stats = (<<3, 2, 1>> :> GoalieRow(10, 100, 8, 920000))
                   @@ (<<3, 1, 1>> :> GoalieRow(3, 20, 2, 900000))
                   @@ (<<3, 2, 5>> :> GoalieRow(6, 60, 6, 900000))
                   @@ (<<3, 2, 8>> :> GoalieRow(5, 50, 4, 920000))
                   @@ (<<3, 1, 8>> :> GoalieRow(0, 0, 0, 0))
    /\ last_op = Op("init", 0)
    /\ raised = FALSE
    /\ result = NoResult
    /\ team_stats = <<>>
    /\ teams = {}
    /\ columns = DerivedColumns
    /\ pacing = NoRequest
    /\ faceoffs = <<>>
    /\ games = <<>>
    /\ head_to_head = <<>>

\* the shot-level aggregation passes of both calculators
NextAgg ==
    \/ scrape_play_by_play
    \/ calculate_shot_xg
    \/ aggregate_xg_by_player
    \/ calculate_gsax_from_shots

SpecAgg == Init /\ [][NextAgg]_vars

\* the passes that write skater_stats
NextSkater ==
    \/ scrape_play_by_play
    \/ calculate_shot_xg
    \/ aggregate_xg_by_player
    \/ xGEstimator_run

SpecSkater == Init /\ [][NextSkater]_vars

\* the passes that write goalie_stats
NextGsax ==
    \/ scrape_play_by_play
    \/ calculate_shot_xg
    \/ calculate_gsax_from_shots
    \/ estimate_gsax_for_season_8
    \/ GSAxCalculator_run

SpecGsax == Init /\ [][NextGsax]_vars

(***************************************************************************)
(* Goalie fallback specification: goalie rows as scrape_goalie_stats       *)
(* stores them (save_percentage 0 when the source field is empty), a       *)
(* season-8 row whose gsax is the default or a value left by an earlier    *)
(* pass, then the season-8 estimation.                                     *)
(***************************************************************************)
GamesPlayed == {4, 5, 10}
SavePcts == {0, 900000, 920000}
Season8Lines == {<<50, 4>>, <<0, 0>>}
StoredGsax == {0, 250000}

InitGoalie ==
    /\ \E gp1 \in GamesPlayed, sv1 \in SavePcts,
          gp5 \in GamesPlayed \cup {NULL}, sv5 \in {0, 900000},
          l8 \in Season8Lines, g8 \in StoredGsax :
          goalie_stats =
              [k \in {<<3, 2, 1>>, <<3, 2, 8>>}
                      \cup (IF gp5 = NULL THEN {} ELSE {<<3, 2, 5>>}) |->
                  IF k = <<3, 2, 1>> THEN GoalieRow(gp1, 100, 8, sv1)
                  ELSE IF k = <<3, 2, 5>> THEN GoalieRow(gp5, 60, 6, sv5)
                  ELSE [GoalieRow(5, l8[1], l8[2], 920000) EXCEPT !.gsax = g8]]
    /\ shots = <<>>
    /\ skater_stats = <<>>
    /\ last_op = Op("init", 0)
    /\ raised = FALSE
    /\ result = NoResult
    /\ team_stats = <<>>
    /\ teams = {}
    /\ columns = DerivedColumns
    /\ pacing = NoRequest
    /\ faceoffs = <<>>
    /\ games = <<>>
    /\ head_to_head = <<>>

NextGoalie == estimate_gsax_for_season_8

SpecGoalie == InitGoalie /\ [][NextGoalie]_vars

(***************************************************************************)
(* Ingestion of the counting stats (scrape_pwhl.py).  api_call returns the *)
(* parsed response, or None when the request times out, the status is not *)
(* a success or the body does not parse (lines 54-66).  A response is      *)
(* [ok, stats]: ok = FALSE stands for None, stats is the list of records   *)
(* <<player_id, team_id, goals, shots>>; a field is NULL when the record   *)
(* lacks the key and Empty when the key is there with '' as its value.     *)
(***************************************************************************)
Response(ok, stats) == [ok |-> ok, stats |-> stats]

ApiFailure == Response(FALSE, <<>>)

\* mutant: an update in place, the derived columns of a row that is there
\* are kept
Upsert_keep_derived(table, key, row) ==
    [k \in DOMAIN table \cup {key} |->
        IF k # key THEN table[k]
        ELSE IF key \in DOMAIN table
             THEN [table[key] EXCEPT !.goals = row.goals, !.shots = row.shots]
             ELSE row]

\* INSERT OR REPLACE under the primary key: the whole row is replaced
Upsert(table, key, row) ==
    [k \in DOMAIN table \cup {key} |-> IF k = key THEN row ELSE table[k]]

\* a field that is present with the empty string as its value
Empty == -4

\* int(stat.get(field, 0)) (lines 377, 381): 0 when the key is absent, the
\* number when the field holds one
IntOrZero(v) == IF v = NULL THEN 0 ELSE v

\* the record raises inside its try: KeyError for a missing player_id
\* (line 351), ValueError for int('') on a present but empty field
StatRaises(stat) == stat[1] = NULL \/ stat[3] = Empty \/ stat[4] = Empty

RECURSIVE StoreSkaterStats_accumulate(_, _, _)
StoreSkaterStats_accumulate(ss, season_id, stats) ==
    IF stats = <<>> THEN ss
    ELSE LET stat == Head(stats)
             key == <<stat[1], stat[2], season_id>>
         IN  StoreSkaterStats_accumulate(
                 IF StatRaises(stat) THEN ss
                 ELSE IF key \in DOMAIN ss
                      THEN Upsert(ss, key,
                                  SkaterRow(ss[key].goals + IntOrZero(stat[3]),
                                            ss[key].shots + IntOrZero(stat[4])))
                      ELSE Upsert(ss, key, SkaterRow(IntOrZero(stat[3]),
                                                     IntOrZero(stat[4]))),
                 season_id, Tail(stats))

\* scrape_pwhl.py 349-414: each record in its own try/except; a record
\* that raises is skipped
RECURSIVE StoreSkaterStats(_, _, _)
StoreSkaterStats(ss, season_id, stats) ==
    IF stats = <<>> THEN ss
    ELSE LET stat == Head(stats)
         IN  StoreSkaterStats(
                 IF StatRaises(stat) THEN ss
                 ELSE Upsert(ss, <<stat[1], stat[2], season_id>>,
                             SkaterRow(IntOrZero(stat[3]), IntOrZero(stat[4]))),
                 season_id, Tail(stats))

\* scrape_pwhl.py 33: SEASONS = [1, 5]
PwhlSeasons == {1, 5}

\* what the source may answer to the skater request of one season
SkaterResponses ==
    { ApiFailure,
      Response(TRUE, << <<1, 1, 2, 10>> >>),
      Response(TRUE, << <<1, 1, 3, 12>> >>),
      Response(TRUE, << <<1, 1, 2, 10>>, <<NULL, 1, 1, 1>> >>),
      Response(TRUE, << <<1, 1, 2, 10>>, <<1, 1, 3, 12>> >>),
      Response(TRUE, << <<1, 1, NULL, 10>>, <<2, 1, Empty, 10>> >>) }

\* scrape_pwhl.py 328-416: seasons in order, a failed call skips the season
ScrapeSkaterStats(ss, responses) ==
    LET after1 == IF responses[1].ok
                  THEN StoreSkaterStats(ss, 1, responses[1].stats) ELSE ss
    IN  IF responses[5].ok
        THEN StoreSkaterStats(after1, 5, responses[5].stats) ELSE after1

scrape_skater_stats ==
    /\ \E responses \in [PwhlSeasons -> SkaterResponses] :
          /\ skater_stats' = ScrapeSkaterStats(skater_stats, responses)
          /\ last_op' = Op("scrape_skater_stats", responses)
    /\ raised' = FALSE
    /\ UNCHANGED <<shots, goalie_stats, result, team_stats, teams, columns, pacing, faceoffs, games, head_to_head>>

(***************************************************************************)
(* ExpansionTeamScraper (add_expansion_teams.py).  teams is the set of     *)
(* team ids of the teams table.                                            *)
(***************************************************************************)
\* lines 84 and 139: the seasons the scraper visits
ExpansionSeasons == {7, 8}

\* line 125: the team ids whose stats are scraped
ExpansionTeamIds == {8, 9}

\* the teams in the schedule of a season, as the source reports them
Schedule(season_id) == IF season_id = 7 THEN {1, 8} ELSE {1, 8, 9}

\* the skater records <<player_id, team_id, goals, shots>> the source
\* reports for a team and season
TeamSkaters(team_id, season_id) ==
    << <<10 * team_id + 1, team_id, season_id - 6, 10>> >>

\* lines 40-80: the teams of the schedule, none when the call fails
get_teams_from_schedule(season_id, ok) ==
    IF ok THEN Schedule(season_id) ELSE {}

\* lines 84-118: every scheduled team that is not in the table is inserted;
\* the teams found new
NewTeams(tm, sched_ok) ==
    UNION {get_teams_from_schedule(s, sched_ok[s]) : s \in ExpansionSeasons} \ tm

\* lines 121-309: for each season and each expansion team of the table, the
\* skater records of a successful call are stored
RECURSIVE ExpansionStats(_, _, _, _)
ExpansionStats(ss, tm, units, stats_ok) ==
    IF units = {} THEN ss
    ELSE LET u == CHOOSE v \in units : TRUE
         IN  ExpansionStats(
                 IF u[2] \in tm /\ stats_ok[u]
                 THEN StoreSkaterStats(ss, u[1], TeamSkaters(u[2], u[1]))
                 ELSE ss,
                 tm, units \ {u}, stats_ok)

ExpansionUnits == ExpansionSeasons \X ExpansionTeamIds

\* lines 311-320: the stats are scraped only when add_expansion_teams found
\* a new team.  stopped: the process ends after the teams were committed.
ExpansionRun(tm, ss, sched_ok, stats_ok, stopped) ==
    LET new == NewTeams(tm, sched_ok)
    IN  [teams |-> tm \cup new,
         skater_stats |-> IF new # {} /\ ~stopped
                          THEN ExpansionStats(ss, tm \cup new, ExpansionUnits, stats_ok)
                          ELSE ss]

ExpansionTeamScraper_run ==
    /\ \E sched_ok \in [ExpansionSeasons -> BOOLEAN],
          stats_ok \in [ExpansionUnits -> BOOLEAN], stopped \in BOOLEAN :
          /\ teams' = ExpansionRun(teams, skater_stats, sched_ok, stats_ok,
                                   stopped).teams
          /\ skater_stats' = ExpansionRun(teams, skater_stats, sched_ok,
                                          stats_ok, stopped).skater_stats
          /\ last_op' = Op("ExpansionTeamScraper.run",
                           [sched_ok |-> sched_ok, stats_ok |-> stats_ok,
                            stopped |-> stopped])
    /\ raised' = FALSE
    /\ UNCHANGED <<shots, goalie_stats, result, team_stats, columns, pacing, faceoffs, games, head_to_head>>

\* Expansion specification: the six original teams are in the table (team 1
\* stands for them), no stats of the expansion teams; then runs of the
\* scraper, each with its own failures.
InitExpansion ==
    /\ teams = {1}
    /\ skater_stats = <<>>
    /\ shots = <<>>
    /\ goalie_stats = <<>>
    /\ team_stats = <<>>
    /\ last_op = Op("init", 0)
    /\ raised = FALSE
    /\ result = NoResult
    /\ columns = DerivedColumns
    /\ pacing = NoRequest
    /\ faceoffs = <<>>
    /\ games = <<>>
    /\ head_to_head = <<>>

NextExpansion == ExpansionTeamScraper_run

SpecExpansion == InitExpansion /\ [][NextExpansion]_vars

(***************************************************************************)
(* StatsFixer (fix_stats.py): the skater stats of every team of the teams  *)
(* table, season by season.                                                *)
(***************************************************************************)
\* the seasons of SEASONS (line 16) the model visits
FixSeasons == {7, 8}

FixUnits == FixSeasons \X {1, 8}

RECURSIVE FixSkaterStats_abort(_, _, _, _)
FixSkaterStats_abort(ss, tm, units, ok) ==
    IF units = {} THEN ss
    ELSE LET u == CHOOSE v \in units : TRUE
         IN  IF u[2] \in tm /\ ~ok[u] THEN ss
             ELSE FixSkaterStats_abort(
                      IF u[2] \in tm
                      THEN StoreSkaterStats(ss, u[1], TeamSkaters(u[2], u[1]))
                      ELSE ss,
                      tm, units \ {u}, ok)

\* lines 50-158: for each season and each team of the table one call; a
\* failed call (api_call returns None, lines 28-40) skips the unit
\* (line 77), the records of the others are stored and committed
RECURSIVE FixSkaterStats(_, _, _, _)
FixSkaterStats(ss, tm, units, ok) ==
    IF units = {} THEN ss
    ELSE LET u == CHOOSE v \in units : TRUE
         IN  FixSkaterStats(
                 IF u[2] \in tm /\ ok[u]
                 THEN StoreSkaterStats(ss, u[1], TeamSkaters(u[2], u[1]))
                 ELSE ss,
                 tm, units \ {u}, ok)

scrape_skater_stats_all_teams ==
    /\ \E ok \in [FixUnits -> BOOLEAN] :
          /\ skater_stats' = FixSkaterStats(skater_stats, teams, FixUnits, ok)
          /\ last_op' = Op("scrape_skater_stats_all_teams", ok)
    /\ raised' = FALSE
    /\ UNCHANGED <<shots, goalie_stats, result, team_stats, teams, columns, pacing, faceoffs, games, head_to_head>>

\* the goalie records <<player_id, team_id, games_played, shots, goals
\* against, save percentage>> the source reports for a team and season
TeamGoalies(team_id, season_id) ==
    << <<10 * team_id + 3, team_id, season_id - 4, 50, 4, 920000>> >>

\* lines 198-245: every record of a response is stored under its key
RECURSIVE StoreGoalieStats(_, _, _)
StoreGoalieStats(gs, season_id, stats) ==
    IF stats = <<>> THEN gs
    ELSE LET stat == Head(stats)
             key == <<stat[1], stat[2], season_id>>
         IN  StoreGoalieStats(
                 [k \in DOMAIN gs \cup {key} |->
                     IF k = key
                     THEN GoalieRow(stat[3], stat[4], stat[5], stat[6])
                     ELSE gs[k]],
                 season_id, Tail(stats))

\* lines 168-259: the goalie scrape, with the loops and the skip of the
\* skater scrape
RECURSIVE FixGoalieStats(_, _, _, _)
FixGoalieStats(gs, tm, units, ok) ==
    IF units = {} THEN gs
    ELSE LET u == CHOOSE v \in units : TRUE
         IN  FixGoalieStats(
                 IF u[2] \in tm /\ ok[u]
                 THEN StoreGoalieStats(gs, u[1], TeamGoalies(u[2], u[1]))
                 ELSE gs,
                 tm, units \ {u}, ok)

DeleteAll_keep(table) == table

\* lines 268-269: DELETE FROM skater_stats, DELETE FROM goalie_stats
DeleteAll(table) == <<>>

\* the answers to the calls of one run: skaters and goalies per unit
FixerCalls(ok, gok) == [skaters |-> ok, goalies |-> gok]

\* lines 263-274: both tables are cleared and the deletion is committed,
\* then the skater scrape and the goalie scrape
StatsFixer_run ==
    /\ \E ok \in [FixUnits -> BOOLEAN], gok \in [FixUnits -> BOOLEAN] :
          /\ skater_stats' = FixSkaterStats(DeleteAll(skater_stats), teams,
                                            FixUnits, ok)
          /\ goalie_stats' = FixGoalieStats(DeleteAll(goalie_stats), teams,
                                            FixUnits, gok)
          /\ last_op' = Op("StatsFixer.run", FixerCalls(ok, gok))
    /\ raised' = FALSE
    /\ UNCHANGED <<shots, result, team_stats, teams, columns, pacing, faceoffs, games, head_to_head>>

\* Fixer specification: a teams table with or without the expansion team,
\* skater stats of an earlier scrape or none; then runs of the fixer.
InitFix ==
    /\ teams \in {{1}, {1, 8}}
    /\ skater_stats \in {<<>>, (<<11, 1, 8>> :> SkaterRow(1, 5))}
    /\ shots = <<>>
    /\ goalie_stats \in {<<>>, (<<13, 1, 8>> :> GoalieRow(2, 20, 3, 850000))}
    /\ team_stats = <<>>
    /\ last_op = Op("init", 0)
    /\ raised = FALSE
    /\ result = NoResult
    /\ columns = DerivedColumns
    /\ pacing = NoRequest
    /\ faceoffs = <<>>
    /\ games = <<>>
    /\ head_to_head = <<>>

NextFix ==
    \/ scrape_skater_stats_all_teams
    \/ StatsFixer_run

SpecFix == InitFix /\ [][NextFix]_vars

(***************************************************************************)
(* Team statistics (calculate_advanced_stats.py).  team_stats maps the key *)
(* <<team_id, season_id>> to a row; percentages are in millionths of a     *)
(* percentage point (50 is 50000000).                                      *)
(***************************************************************************)
CorsiPctDefault == 50 * Unit

PdoDefault == 100 * Unit

\* line 337: the save percentage used when no shot against is recorded
NoShotsSavePct == 91600000

\* scrape_team_stats (scrape_pwhl.py 501-585) stores goals_for and
\* goals_against; the columns of add_columns (lines 36-43) hold their defaults
TeamRow(gf, ga) ==
    [goals_for |-> gf, goals_against |-> ga, corsi_for |-> 0,
     corsi_against |-> 0, corsi_pct |-> CorsiPctDefault, pdo |-> PdoDefault]

\* COUNT(CASE WHEN team_id = ? THEN 1 END) ... WHERE season_id = ?
shots_for(sh, team_id, season_id) ==
    Cardinality({e \in DOMAIN sh : sh[e].team_id = team_id
                                   /\ sh[e].season_id = season_id})

\* COUNT(CASE WHEN opponent_team_id = ? THEN 1 END) ... WHERE season_id = ?
shots_against(sh, team_id, season_id) ==
    Cardinality({e \in DOMAIN sh : sh[e].opponent_team_id = team_id
                                   /\ sh[e].season_id = season_id})

\* PlayByPlayScraper.scrape_season_shots (scrape_playbyplay.py 53-164): the
\* shot plays of the season's games are stored with INSERT OR REPLACE under
\* their event id, with the season of the call; derived columns are not in
\* the column list.  PlayFeed(i) is what the source may report as the i-th
\* play of the game: <<event_id, shooting team, opponent>>, event_id NULL
\* when the play carries none.
PlayFeed(i) ==
    IF i = 1 THEN {<<1, 1, 2>>, <<1, 2, 1>>}
    ELSE IF i = 2 THEN {<<2, 2, 1>>, <<2, 7, 1>>, <<2, 1, 7>>, <<NULL, 1, 2>>}
    ELSE {<<i, 1, 2>>}

PlayFiles ==
    { f \in UNION { [1..n -> UNION {PlayFeed(i) : i \in EventIds}] : n \in EventIds } :
        \A i \in DOMAIN f : f[i] \in PlayFeed(i) }

\* one completed game per season; its game_id
GameOf(season_id) == 10 + season_id

\* line 72: the key f"{game_id}_{shot_count}" of a play without event_id,
\* as a number outside the event ids of the source
FallbackId(game_id, shot_count) == 100 * game_id + shot_count

\* lines 65-113: shot_count counts the plays stored before this one
EventIdOf(plays, i, season_id) ==
    IF plays[i][1] # NULL THEN plays[i][1]
    ELSE FallbackId(GameOf(season_id), i - 1)

StorePlays(sh, plays, season_id) ==
    LET ids == {EventIdOf(plays, i, season_id) : i \in DOMAIN plays}
        at(id) == CHOOSE i \in DOMAIN plays :
                      /\ EventIdOf(plays, i, season_id) = id
                      /\ \A j \in DOMAIN plays :
                            EventIdOf(plays, j, season_id) = id => j <= i
    IN  [e \in DOMAIN sh \cup ids |->
            IF e \in ids
            THEN ShotRow(1, 3, plays[at(e)][2], plays[at(e)][3], season_id,
                         50, 150, 2, 2, 0, 0)
            ELSE sh[e]]

\* PlayByPlayScraper.run (lines 166-170) scrapes season 8
PlayByPlaySeason == 8

\* the seasons the team passes are run for
TeamSeasons == {1, 8}

scrape_season_shots ==
    /\ \E plays \in PlayFiles :
          /\ shots' = StorePlays(shots, plays, PlayByPlaySeason)
          /\ last_op' = Op("scrape_season_shots", plays)
    /\ raised' = FALSE
    /\ UNCHANGED <<skater_stats, goalie_stats, result, team_stats, teams, columns, pacing, faceoffs, games, head_to_head>>

\* lines 335-340: shooting% + save%
pdo(gf, ga, sf, sa) ==
    (IF sf > 0 THEN (100 * gf * Unit) \div sf ELSE 0)
      + (IF sa > 0 THEN (100 * (sa - ga) * Unit) \div sa ELSE NoShotsSavePct)

\* lines 307-350: every team_stats row of the season; the update is made
\* only when both counts are non-zero (line 332)
TeamPdo(ts, sh, season_id) ==
    [k \in DOMAIN ts |->
        LET sf == shots_for(sh, k[1], season_id)
            sa == shots_against(sh, k[1], season_id)
        IN  IF k[2] = season_id /\ sf # 0 /\ sa # 0
            THEN [ts[k] EXCEPT !.pdo = pdo(ts[k].goals_for, ts[k].goals_against,
                                           sf, sa)]
            ELSE ts[k]]

calculate_team_pdo ==
    /\ \E season_id \in TeamSeasons :
          /\ team_stats' = TeamPdo(team_stats, shots, season_id)
          /\ last_op' = Op("calculate_team_pdo", season_id)
    /\ raised' = FALSE
    /\ UNCHANGED <<shots, skater_stats, goalie_stats, result, teams, columns, pacing, faceoffs, games, head_to_head>>

\* line 123: the team ids the Corsi pass visits
CorsiTeams == {1, 2, 3, 4, 5, 6, 8, 9}

\* line 148
corsi_pct(corsi_for, corsi_against) ==
    IF corsi_for + corsi_against > 0
    THEN (100 * corsi_for * Unit) \div (corsi_for + corsi_against)
    ELSE CorsiPctDefault

\* lines 115-159: for each listed team, UPDATE ... WHERE team_id AND season_id
TeamCorsi(ts, sh, season_id) ==
    [k \in DOMAIN ts |->
        IF k[2] = season_id /\ k[1] \in CorsiTeams
        THEN [ts[k] EXCEPT
                !.corsi_for = shots_for(sh, k[1], season_id),
                !.corsi_against = shots_against(sh, k[1], season_id),
                !.corsi_pct = corsi_pct(shots_for(sh, k[1], season_id),
                                        shots_against(sh, k[1], season_id))]
        ELSE ts[k]]

calculate_team_corsi_fenwick ==
    /\ \E season_id \in TeamSeasons :
          /\ team_stats' = TeamCorsi(team_stats, shots, season_id)
          /\ last_op' = Op("calculate_team_corsi_fenwick", season_id)
    /\ raised' = FALSE
    /\ UNCHANGED <<shots, skater_stats, goalie_stats, result, teams, columns, pacing, faceoffs, games, head_to_head>>

\* Team specification: the standings rows of three teams, no shots; then
\* shot ingestion and the two team passes in any order.
InitTeam ==
    /\ team_stats = (<<1, 8>> :> TeamRow(1, 0))
                 @@ (<<2, 8>> :> TeamRow(0, 1))
                 @@ (<<7, 8>> :> TeamRow(1, 1))
                 @@ (<<1, 1>> :> TeamRow(2, 1))
    /\ shots = <<>>
    /\ skater_stats = <<>>
    /\ goalie_stats = <<>>
    /\ last_op = Op("init", 0)
    /\ raised = FALSE
    /\ result = NoResult
    /\ teams = {}
    /\ columns = DerivedColumns
    /\ pacing = NoRequest
    /\ faceoffs = <<>>
    /\ games = <<>>
    /\ head_to_head = <<>>

NextTeam ==
    \/ scrape_season_shots
    \/ calculate_team_pdo
    \/ calculate_team_corsi_fenwick

SpecTeam == InitTeam /\ [][NextTeam]_vars

\* Ingestion specification: the empty store of init_database, then the
\* ingestion routines in any order.
InitIngest ==
    /\ shots = <<>>
    /\ skater_stats = <<>>
    /\ goalie_stats = <<>>
    /\ team_stats = <<>>
    /\ last_op = Op("init", 0)
    /\ raised = FALSE
    /\ result = NoResult
    /\ teams = {}
    /\ columns = DerivedColumns
    /\ pacing = NoRequest
    /\ faceoffs = <<>>
    /\ games = <<>>
    /\ head_to_head = <<>>

NextIngest ==
    \/ scrape_skater_stats
    \/ scrape_play_by_play
    \/ scrape_season_shots

SpecIngest == InitIngest /\ [][NextIngest]_vars

(***************************************************************************)
(* Properties of the scorer, checked under SpecXg.                         *)
(***************************************************************************)
\* the multiplier tables as the specification states them
StatedTypeMult(st) ==
    IF st = 1 THEN 140 ELSE IF st = 2 THEN 100 ELSE IF st = 3 THEN 119
    ELSE IF st \in {4, 5} THEN 125 ELSE IF st = 6 THEN 182 ELSE 100

StatedQualityMult(q) ==
    IF q \in {1, 5} THEN 115 ELSE IF q \in {2, 6} THEN 85 ELSE 100

StatedXg(base, st, q) ==
    IF base * StatedTypeMult(st) * StatedQualityMult(q) > 250000
    THEN 250000
    ELSE base * StatedTypeMult(st) * StatedQualityMult(q)

Scored == last_op.name = "calculate_shot_xg" /\ ~raised

\* C1: for non-null coordinates of the scored rows the scoring pass returns
\* normally, and every stored shot xg lies in [0, 0.25].
C1_XgInRange ==
    /\ \A e \in DOMAIN shots : shots[e].xg >= 0 /\ shots[e].xg <= 250000
    /\ (last_op.name = "calculate_shot_xg"
          /\ \A e \in DOMAIN shots : shots[e].y_location # NULL) => ~raised

\* C1 witness: a scored table holding a capped value
C1_Witness ==
    Scored /\ \E e \in DOMAIN shots :
                shots[e].xg = 250000 /\ shots[e].y_location = 199

\* C2 as stated: y = 100 and y = 200 score with the perimeter base 0.04,
\* y = 150 with the high-danger base 0.12.
C2_BoundaryIsPerimeter ==
    Scored => \A e \in DOMAIN shots :
        /\ shots[e].y_location \in {100, 200} =>
              shots[e].xg = StatedXg(4, shots[e].shot_type, shots[e].quality)
        /\ shots[e].y_location = 150 =>
              shots[e].xg = StatedXg(12, shots[e].shot_type, shots[e].quality)

\* C2 amended: the high-danger zone is the closed interval 100 <= y <= 200;
\* y = 100, y = 150 and y = 200 score with base 0.12, y = 99 and y = 201
\* with base 0.04.
C2_BoundaryIsHighDanger ==
    Scored => \A e \in DOMAIN shots :
        /\ (shots[e].y_location >= 100 /\ shots[e].y_location <= 200) =>
              shots[e].xg = StatedXg(12, shots[e].shot_type, shots[e].quality)
        /\ (shots[e].y_location # NULL
              /\ (shots[e].y_location < 100 \/ shots[e].y_location > 200)) =>
              shots[e].xg = StatedXg(4, shots[e].shot_type, shots[e].quality)

\* C2 witness: a scored wrist shot exactly on the boundary y = 100
C2_Witness ==
    Scored /\ \E e \in DOMAIN shots :
                /\ shots[e].y_location = 100
                /\ shots[e].shot_type = 2 /\ shots[e].quality = 0
                /\ shots[e].xg = 120000

\* C3: two scored shots with the same shot_type, quality, x and y hold the
\* same xg, whatever their is_goal flags.
C3_OutcomeIndependent ==
    Scored => \A e1 \in DOMAIN shots, e2 \in DOMAIN shots :
        (/\ shots[e1].shot_type = shots[e2].shot_type
         /\ shots[e1].quality = shots[e2].quality
         /\ shots[e1].x_location = shots[e2].x_location
         /\ shots[e1].y_location = shots[e2].y_location)
        => shots[e1].xg = shots[e2].xg

\* C3 witness: a goal and a non-goal with identical inputs, both scored
C3_Witness ==
    Scored /\ \E e1 \in DOMAIN shots, e2 \in DOMAIN shots :
                /\ shots[e1].is_goal = 1 /\ shots[e2].is_goal = 0
                /\ shots[e1].shot_type = shots[e2].shot_type
                /\ shots[e1].quality = 1
                /\ shots[e1].xg > 0

\* C4: every scored shot holds min(0.25, base * T * Q) with the stated
\* tables (unknown and null codes count 1.00), base 0.12 strictly inside
\* (100, 200) and 0.04 strictly outside [100, 200]; (type 2, quality 2,
\* y 150) holds 0.102 and (type 6, quality 5, y 150) holds 0.25.
C4_Formula ==
    Scored => \A e \in DOMAIN shots :
        LET st == shots[e].shot_type
            q  == shots[e].quality
            y  == shots[e].y_location
        IN  /\ \E b \in {4, 12} : shots[e].xg = StatedXg(b, st, q)
            /\ (y > 100 /\ y < 200) => shots[e].xg = StatedXg(12, st, q)
            /\ (y # NULL /\ (y < 100 \/ y > 200)) =>
                  shots[e].xg = StatedXg(4, st, q)
            /\ (st = 2 /\ q = 2 /\ y = 150) => shots[e].xg = 102000
            /\ (st = 6 /\ q = 5 /\ y = 150) => shots[e].xg = 250000

\* C4 witness: the two worked examples' codes, scored (null quality too)
C4_Witness ==
    Scored /\ \E e \in DOMAIN shots :
                /\ shots[e].shot_type = 6 /\ shots[e].quality = 5
                /\ shots[e].y_location = 150 /\ shots[e].xg = 250000

\* C5 as stated: the scoring pass completes, and a shot whose y_location is
\* null is scored with the perimeter base 0.04.
C5_NullLocationIsPerimeter ==
    last_op.name = "calculate_shot_xg" =>
        /\ ~raised
        /\ \A e \in DOMAIN shots :
              shots[e].y_location = NULL =>
                 shots[e].xg = StatedXg(4, shots[e].shot_type, shots[e].quality)

(***************************************************************************)
(* Properties of the aggregation passes.                                   *)
(***************************************************************************)
\* the shots taken under the key k = <<player, team, season>> in the table sh
ShotsTaken(k, sh) ==
    {e \in DOMAIN sh : <<sh[e].player_id, sh[e].team_id, sh[e].season_id>> = k}

\* the shots faced under the key k = <<goalie, goalie's team, season>>
ShotsFaced(k, sh) ==
    {e \in DOMAIN sh :
        <<sh[e].goalie_id, sh[e].opponent_team_id, sh[e].season_id>> = k}

TotalXg(S, sh) == Sum([e \in DOMAIN sh |-> sh[e].xg], S)
TotalGoals(S, sh) == Sum([e \in DOMAIN sh |-> sh[e].is_goal], S)

\* C6: after aggregate_xg_by_player every skater row with shots holds
\* xg = sum of its shots' xg and goals_above_xg = its shots' goals - xg;
\* after calculate_gsax_from_shots(s) every goalie row of season s with
\* shots faced holds gsax = sum of xg faced - goals faced.
C6_AggregateSums ==
    /\ last_op.name = "aggregate_xg_by_player" =>
          \A k \in DOMAIN skater_stats :
             ShotsTaken(k, shots) # {} =>
                /\ skater_stats[k].xg = TotalXg(ShotsTaken(k, shots), shots)
                /\ skater_stats[k].goals_above_xg =
                      TotalGoals(ShotsTaken(k, shots), shots) * 1000000
                        - skater_stats[k].xg
    /\ last_op.name = "calculate_gsax_from_shots" =>
          \A k \in DOMAIN goalie_stats :
             (k[3] = last_op.arg /\ ShotsFaced(k, shots) # {}) =>
                goalie_stats[k].gsax =
                   TotalXg(ShotsFaced(k, shots), shots)
                     - TotalGoals(ShotsFaced(k, shots), shots) * 1000000

\* C6 witness: two scored shots (0.25 and 0.102, one goal) under one key,
\* aggregated for the skater and then for the goalie
C6_Witness ==
    /\ last_op = Op("calculate_gsax_from_shots", 1)
    /\ skater_stats[<<1, 1, 1>>].xg = 352000
    /\ skater_stats[<<1, 1, 1>>].goals_above_xg = 648000
    /\ goalie_stats[<<3, 2, 1>>].gsax = -648000

\* C7: an aggregation step gives a row the sums over its own team's shots
\* only: a skater row whose player has shots under another team in the
\* season receives its own team's sums (0 when it has none), and a goalie
\* row receives its own sums or, without shots faced for its team, nothing.
C7_NoTeamMerge ==
    [][ /\ last_op'.name = "aggregate_xg_by_player" =>
             \A k \in DOMAIN skater_stats' :
                (\E e \in DOMAIN shots' :
                    /\ shots'[e].player_id = k[1]
                    /\ shots'[e].season_id = k[3]
                    /\ shots'[e].team_id # k[2]) =>
                   /\ skater_stats'[k].xg = TotalXg(ShotsTaken(k, shots'), shots')
                   /\ skater_stats'[k].goals_above_xg =
                         TotalGoals(ShotsTaken(k, shots'), shots') * 1000000
                           - TotalXg(ShotsTaken(k, shots'), shots')
        /\ last_op'.name = "calculate_gsax_from_shots" =>
             \A k \in DOMAIN goalie_stats' :
                (\E e \in DOMAIN shots' :
                    /\ shots'[e].goalie_id = k[1]
                    /\ shots'[e].season_id = k[3]
                    /\ shots'[e].opponent_team_id # k[2]) =>
                   goalie_stats'[k].gsax =
                      IF k[3] = last_op'.arg /\ ShotsFaced(k, shots') # {}
                      THEN TotalXg(ShotsFaced(k, shots'), shots')
                             - TotalGoals(ShotsFaced(k, shots'), shots') * 1000000
                      ELSE goalie_stats[k].gsax
      ]_vars

\* C7 witness: player 1 has a scored shot under team 1 and one under team 2
\* in season 1, and the two rows hold the two separate totals
C7_Witness ==
    /\ last_op.name = "aggregate_xg_by_player"
    /\ skater_stats[<<1, 1, 1>>].xg = 250000
    /\ skater_stats[<<1, 2, 1>>].xg = 34000
    /\ skater_stats[<<1, 2, 1>>].goals_above_xg = -34000

\* C8 as stated: after an aggregation pass every skater row satisfies
\* goals_above_xg = stored goals - stored xg.
C8_StoredGoalsMinusXg ==
    last_op.name \in {"aggregate_xg_by_player", "estimate_season_8_xg"} =>
        \A k \in DOMAIN skater_stats :
            skater_stats[k].goals_above_xg =
                skater_stats[k].goals * 1000000 - skater_stats[k].xg

\* C8 amended: after aggregate_xg_by_player every skater row satisfies
\* goals_above_xg = (goals among the row's shot records) - stored xg, a row
\* without shot records holding xg = 0 and goals_above_xg = 0 whatever its
\* stored goals; after estimate_season_8_xg every season-8 row with
\* shots > 0 whose player is in the players table satisfies
\* goals_above_xg = stored goals - stored xg.
C8_ShotGoalsMinusXg ==
    /\ last_op.name = "aggregate_xg_by_player" =>
          \A k \in DOMAIN skater_stats :
             /\ skater_stats[k].goals_above_xg =
                   TotalGoals(ShotsTaken(k, shots), shots) * 1000000
                     - skater_stats[k].xg
             /\ ShotsTaken(k, shots) = {} =>
                   skater_stats[k].xg = 0 /\ skater_stats[k].goals_above_xg = 0
    /\ last_op.name = "estimate_season_8_xg" =>
          \A k \in DOMAIN skater_stats :
             (k[3] = 8 /\ skater_stats[k].shots > 0 /\ k[1] \in {1, 2}) =>
                skater_stats[k].goals_above_xg =
                   skater_stats[k].goals * 1000000 - skater_stats[k].xg

\* C8 witness: after the estimation, an aggregated season-1 row with two
\* stored goals and one shot-record goal, and an estimated season-8 row
C8_Witness ==
    /\ last_op.name = "estimate_season_8_xg"
    /\ skater_stats[<<1, 1, 1>>].goals = 2
    /\ skater_stats[<<1, 1, 1>>].xg = 250000
    /\ skater_stats[<<1, 1, 1>>].goals_above_xg = 750000
    /\ skater_stats[<<1, 1, 8>>].xg > 0

\* C9: an aggregation pass that directly follows the same pass (same
\* season argument) leaves every goals_above_xg, xg and gsax as it was.
C9_Idempotent ==
    [][ /\ (last_op.name = "aggregate_xg_by_player"
              /\ last_op'.name = "aggregate_xg_by_player") =>
                 skater_stats' = skater_stats
        /\ (last_op.name = "calculate_gsax_from_shots" /\ last_op' = last_op) =>
                 goalie_stats' = goalie_stats
      ]_vars

\* C9 witness: non-zero aggregates of both tables, the skater pass last
C9_Witness ==
    /\ last_op.name = "aggregate_xg_by_player"
    /\ skater_stats[<<1, 1, 1>>].goals_above_xg = 750000
    /\ goalie_stats[<<3, 2, 1>>].gsax = -750000

\* C10 as stated: after GSAxCalculator.run every gsax equals the gsax the
\* run leaves in a store with the same shots and counting stats whose
\* previous gsax values are all the column default 0.
C10_GsaxIgnoresStoredGsax ==
    last_op.name = "GSAxCalculator.run" =>
        \A k \in DOMAIN goalie_stats :
            goalie_stats[k].gsax =
                GsaxRun([j \in DOMAIN goalie_stats |->
                            [goalie_stats[j] EXCEPT !.gsax = 0]], shots)[k].gsax

(***************************************************************************)
(* Properties of the pipeline as a whole.                                  *)
(***************************************************************************)

\* the store as the three skater stages leave it when run in order: every
\* shot scored, skater rows aggregated, season 8 estimated
PipelineDone ==
    /\ ~ScoreRaises(shots)
    /\ shots = ScoreAll(shots)
    /\ skater_stats = EstimateSeason8(AggregateXg(skater_stats, shots))

\* C11 as stated: once scoring, aggregation and the season-8 estimation have
\* completed, re-running any one of the three stages (base data unchanged)
\* leaves every skater xg and goals_above_xg as it was.
C11_StageRerunKeepsValues ==
    [][ (PipelineDone /\ last_op'.name \in {"calculate_shot_xg",
                                            "aggregate_xg_by_player",
                                            "estimate_season_8_xg"}) =>
            \A k \in DOMAIN skater_stats :
                /\ skater_stats'[k].xg = skater_stats[k].xg
                /\ skater_stats'[k].goals_above_xg = skater_stats[k].goals_above_xg
      ]_vars

\* C12 as stated (goalie side): after GSAxCalculator.run, every goalie row
\* whose season has shot records faced by that goalie (season 8 included)
\* holds the shot-derived gsax = sum of xg faced - goals faced, not the
\* save-percentage estimate.
C12_ShotDerivedWhereShotsExist ==
    last_op.name = "GSAxCalculator.run" =>
        \A k \in DOMAIN goalie_stats :
            ShotsFaced(k, shots) # {} =>
                goalie_stats[k].gsax =
                    TotalXg(ShotsFaced(k, shots), shots)
                      - TotalGoals(ShotsFaced(k, shots), shots) * Unit

(***************************************************************************)
(* Properties of the estimators.                                           *)
(***************************************************************************)

\* the rate read for a position or bucket: 0.10 when the loaded rates have
\* no entry for it
StatedPositionRate(ss, position) ==
    IF \E k \in HistoricalRows(ss) : players[k[1]] = position
    THEN position_rate(ss, position) ELSE 100000

StatedVolumeRate(ss, n) ==
    LET lo == IF n < 20 THEN 1 ELSE IF n < 50 THEN 20 ELSE IF n < 80 THEN 50 ELSE 80
        hi == IF n < 20 THEN 19 ELSE IF n < 50 THEN 49 ELSE IF n < 80 THEN 79 ELSE 1000000
    IN  IF \E k \in DOMAIN ss : /\ k[3] \in {1, 5}
                                /\ lo <= ss[k].shots /\ ss[k].shots <= hi
        THEN volume_rate(ss, Bucket(n)) ELSE 100000

StatedRegression(n) == IF n < 20 THEN 8 ELSE IF n <= 49 THEN 6 ELSE 4

\* the blend r*n*(0.6*P + 0.4*V) + (1-r)*goals in units of 1e-8 goals
\* (tenths r, tenths weights, millionth rates)
StatedEstimate100(ss, n, goals, position) ==
    StatedRegression(n) * n * (6 * StatedPositionRate(ss, position)
                               + 4 * StatedVolumeRate(ss, n))
      + (10 - StatedRegression(n)) * goals * 10 * 1000000

\* C13: estimate_xg_for_player returns 0 for shots = 0, and for shots > 0
\* max(0, r*shots*(0.6*position_rate + 0.4*volume_rate) + (1-r)*goals) with
\* the stated buckets, factors and 0.10 default (up to the fixed-point
\* truncation, below shots + 1 millionths).
C13_EstimateFormula ==
    result.fn = "estimate_xg_for_player" =>
        LET n == result.args[1]
            goals == result.args[2]
            position == result.args[3]
            exact == Max(0, StatedEstimate100(skater_stats, n, goals, position))
        IN  IF n = 0 THEN result.value = 0
            ELSE /\ 100 * result.value <= exact
                 /\ exact < 100 * (result.value + n + 1)

\* C13 witness: 50 shots and 3 goals of a position without historical rows,
\* bucket rate 4/60 and factor 0.4: 0.4*50*(0.06 + 0.4*0.066666) + 0.6*3
C13_Witness ==
    /\ result = Returned("estimate_xg_for_player", <<50, 3, "G">>, 3533320)
    /\ skater_stats[<<1, 1, 1>>].shots = 60

\* the goalie rows of seasons 1 and 5 with five games or more
QualifyingGoalies(gs) ==
    {k \in DOMAIN gs : k[3] \in {1, 5} /\ gs[k].games_played >= 5}

AvgSavePct(gs) ==
    Sum([k \in QualifyingGoalies(gs) |-> gs[k].save_percentage],
        QualifyingGoalies(gs)) \div Cardinality(QualifyingGoalies(gs))

\* C14 as stated: the estimation writes shots_against * (1 - A) -
\* goals_against to every season-8 row with shots_against > 0, A being the
\* average save percentage of the qualifying rows and 0.91 only when there
\* is no qualifying row; rows with shots_against = 0 keep their gsax.
C14_AverageOrDefaultWhenNoRow ==
    [][ last_op'.name = "estimate_gsax_for_season_8" =>
          LET A == IF QualifyingGoalies(goalie_stats) = {} THEN 910000
                   ELSE AvgSavePct(goalie_stats)
          IN  \A k \in DOMAIN goalie_stats :
                 /\ (k[3] = 8 /\ goalie_stats[k].shots_against > 0) =>
                       goalie_stats'[k].gsax =
                           goalie_stats[k].shots_against * (1000000 - A)
                             - goalie_stats[k].goals_against * 1000000
                 /\ goalie_stats[k].shots_against = 0 =>
                       goalie_stats'[k].gsax = goalie_stats[k].gsax
      ]_vars

\* C14 (amended): as above, with A = 0.91 also when the average of the
\* qualifying rows is 0.
C14_AverageOrDefaultWhenZero ==
    [][ last_op'.name = "estimate_gsax_for_season_8" =>
          LET A == IF QualifyingGoalies(goalie_stats) = {} THEN 910000
                   ELSE IF AvgSavePct(goalie_stats) = 0 THEN 910000
                   ELSE AvgSavePct(goalie_stats)
          IN  \A k \in DOMAIN goalie_stats :
                 /\ (k[3] = 8 /\ goalie_stats[k].shots_against > 0) =>
                       goalie_stats'[k].gsax =
                           goalie_stats[k].shots_against * (1000000 - A)
                             - goalie_stats[k].goals_against * 1000000
                 /\ goalie_stats[k].shots_against = 0 =>
                       goalie_stats'[k].gsax = goalie_stats[k].gsax
      ]_vars

\* C14 witness: qualifying rows with save percentages 0.92 and 0.90, and a
\* season-8 row with 50 shots and 4 goals against: 50 * 0.09 - 4 = 0.5
C14_Witness ==
    /\ last_op.name = "estimate_gsax_for_season_8"
    /\ <<3, 2, 5>> \in DOMAIN goalie_stats
    /\ goalie_stats[<<3, 2, 1>>].games_played = 10
    /\ goalie_stats[<<3, 2, 1>>].save_percentage = 920000
    /\ goalie_stats[<<3, 2, 5>>].games_played = 5
    /\ goalie_stats[<<3, 2, 5>>].save_percentage = 900000
    /\ goalie_stats[<<3, 2, 8>>].shots_against = 50
    /\ goalie_stats[<<3, 2, 8>>].gsax = 500000

(***************************************************************************)
(* Properties of the team passes, checked under SpecTeam.                  *)
(***************************************************************************)

\* C15 as stated: after calculate_team_pdo(s), whatever passes and shot
\* changes came before, every team_stats row of season s whose shots-for or
\* shots-against count is zero has pdo = 100 (and the pass raised nothing).
C15_ZeroShotsPdoIsNeutral ==
    last_op.name = "calculate_team_pdo" =>
        /\ ~raised
        /\ \A k \in DOMAIN team_stats :
              (/\ k[2] = last_op.arg
               /\ \/ shots_for(shots, k[1], k[2]) = 0
                  \/ shots_against(shots, k[1], k[2]) = 0) =>
                 team_stats[k].pdo = 100 * 1000000

\* C16 as stated: after calculate_team_pdo(s), a team_stats row of season s
\* with shots-for > 0 and no shots-against has
\* pdo = 100 * goals_for / shots_for + 91.6.
C16_NoShotsAgainstUses916 ==
    last_op.name = "calculate_team_pdo" =>
        \A k \in DOMAIN team_stats :
            (/\ k[2] = last_op.arg
             /\ shots_for(shots, k[1], k[2]) > 0
             /\ shots_against(shots, k[1], k[2]) = 0) =>
                team_stats[k].pdo =
                    (100 * team_stats[k].goals_for * 1000000)
                        \div shots_for(shots, k[1], k[2]) + 91600000

\* C17 as stated: after calculate_team_corsi_fenwick(s), every team_stats
\* row of season s has corsi_for = the season's shots by the team,
\* corsi_against = the season's shots against it, and corsi_pct =
\* 100 * corsi_for / (corsi_for + corsi_against), or 50 when that sum is 0.
C17_EveryTeamRowHasCorsi ==
    last_op.name = "calculate_team_corsi_fenwick" =>
        \A k \in DOMAIN team_stats :
            k[2] = last_op.arg =>
                LET cf == Cardinality({e \in DOMAIN shots :
                                          /\ shots[e].team_id = k[1]
                                          /\ shots[e].season_id = k[2]})
                    ca == Cardinality({e \in DOMAIN shots :
                                          /\ shots[e].opponent_team_id = k[1]
                                          /\ shots[e].season_id = k[2]})
                IN  /\ team_stats[k].corsi_for = cf
                    /\ team_stats[k].corsi_against = ca
                    /\ team_stats[k].corsi_pct =
                          IF cf + ca = 0 THEN 50 * 1000000
                          ELSE (100 * cf * 1000000) \div (cf + ca)

(***************************************************************************)
(* Properties of the ingestion routines.                                   *)
(***************************************************************************)

\* the ingested columns of the tables, without the derived ones
IngestedSkaters(ss) ==
    [k \in DOMAIN ss |-> <<ss[k].goals, ss[k].shots>>]

IngestedShots(sh) == [e \in DOMAIN sh |-> [sh[e] EXCEPT !.xg = 0]]

FullExpansionRun ==
    ExpansionRun({1}, <<>>, [s \in ExpansionSeasons |-> TRUE],
                 [u \in ExpansionUnits |-> TRUE], FALSE)

\* C19 as stated: a run of the expansion scraper from the start with the
\* source available (every call succeeds, the process is not stopped),
\* whatever failed runs preceded it, leaves the store a single fully
\* successful run produces: the expansion teams and their stats.
C19_RetryReachesFullStore ==
    [][ (/\ last_op'.name = "ExpansionTeamScraper.run"
         /\ \A s \in ExpansionSeasons : last_op'.arg.sched_ok[s]
         /\ \A u \in ExpansionUnits : last_op'.arg.stats_ok[u]
         /\ ~last_op'.arg.stopped) =>
            /\ teams' = FullExpansionRun.teams
            /\ skater_stats' = FullExpansionRun.skater_stats
      ]_vars

\* the skater_stats keys of a season/team unit u = <<season_id, team_id>>
UnitKeys(ss, u) == {k \in DOMAIN ss : k[2] = u[2] /\ k[3] = u[1]}

\* every record the source holds for the unit is stored with its values
UnitStored(ss, u) ==
    \A i \in DOMAIN TeamSkaters(u[2], u[1]) :
        LET stat == TeamSkaters(u[2], u[1])[i]
            key == <<stat[1], stat[2], u[1]>>
        IN  /\ key \in DOMAIN ss
            /\ ss[key].goals = stat[3]
            /\ ss[key].shots = stat[4]

\* the answers to the skater calls of a fixer operation
SkaterCalls(op) ==
    IF op.name = "StatsFixer.run" THEN op.arg.skaters ELSE op.arg

\* C20: when the call of a season/team unit fails, the fixer raises nothing,
\* writes no row of that unit (the scrape leaves the unit's rows as they
\* were, the run, which first clears the table, leaves none), and the
\* records of every other unit of a team of the table are stored.
C20_FailedUnitSkipped ==
    [][ last_op'.name \in {"scrape_skater_stats_all_teams", "StatsFixer.run"} =>
          /\ ~raised'
          /\ \A u \in FixUnits :
                IF SkaterCalls(last_op')[u]
                THEN u[2] \in teams => UnitStored(skater_stats', u)
                ELSE IF last_op'.name = "StatsFixer.run"
                     THEN UnitKeys(skater_stats', u) = {}
                     ELSE /\ UnitKeys(skater_stats', u) = UnitKeys(skater_stats, u)
                          /\ \A k \in UnitKeys(skater_stats, u) :
                                skater_stats'[k] = skater_stats[k]
      ]_vars

\* C20 witness: a run in which the season-7 call of team 1 failed and the
\* three other calls succeeded; their rows are stored, none of the failed unit
C20_Witness ==
    /\ last_op.name = "StatsFixer.run"
    /\ last_op.arg.skaters = [u \in FixUnits |-> u # <<7, 1>>]
    /\ teams = {1, 8}
    /\ DOMAIN skater_stats = {<<11, 1, 8>>, <<81, 8, 7>>, <<81, 8, 8>>}

(***************************************************************************)
(* PWHLScraper.scrape_teams (scrape_pwhl.py 113-147).  A team record is    *)
(* the value of its 'id' field: NULL when the key is missing, NonNumeric   *)
(* when int() cannot parse it.  The loop has no try/except, so the         *)
(* KeyError or ValueError of int(team['id']) leaves the routine before its *)
(* commit; main() then closes the connection in its finally clause and the *)
(* inserts of the open transaction are rolled back.                        *)
(***************************************************************************)
NonNumeric == -3

IsInt(v) == v \notin {NULL, NonNumeric}

TeamsOutcome(table, exc) == [table |-> table, raised |-> exc]

\* lines 128-143: the INSERT OR REPLACE loop over one response
RECURSIVE InsertTeams(_, _)
InsertTeams(tm, recs) ==
    IF recs = <<>> THEN TeamsOutcome(tm, FALSE)
    ELSE IF ~IsInt(Head(recs)) THEN TeamsOutcome(tm, TRUE)
    ELSE InsertTeams(tm \cup {Head(recs)}, Tail(recs))

\* lines 117-145: seasons in order, a failed call skips the season, one
\* commit at the end; an exception leaves the committed table as it was
ScrapeTeams(tm, responses) ==
    LET s1 == IF responses[1].ok THEN InsertTeams(tm, responses[1].stats)
              ELSE TeamsOutcome(tm, FALSE)
        s5 == IF s1.raised THEN s1
              ELSE IF responses[5].ok
                   THEN InsertTeams(s1.table, responses[5].stats)
                   ELSE s1
    IN  IF s5.raised THEN TeamsOutcome(tm, TRUE) ELSE s5

\* what the source may answer to the teamsbyseason request of one season
TeamResponses ==
    { ApiFailure,
      Response(TRUE, <<1>>),
      Response(TRUE, <<1, 2>>),
      Response(TRUE, <<1, NonNumeric, 2>>),
      Response(TRUE, <<NULL, 3>>),
      Response(TRUE, <<3, 4>>) }

\* scrape_pwhl.py 62: time.sleep(0.1)
ApiDelay == 100

\* the time a request takes to answer or to fail
Latencies == {0, 40}

\* api_call (lines 54-66): the sleep follows raise_for_status inside the
\* try, so it is reached when the request succeeds; a call that returns
\* None has slept only if it was response.json() that raised.  The value is
\* the time from sending the request to the return of api_call.
ApiCallTime(latency, slept) == latency + (IF slept THEN ApiDelay ELSE 0)

Sleeps(response) == IF response.ok THEN {TRUE} ELSE BOOLEAN

\* the requests of scrape_teams: one per season, the second one only if the
\* first response did not raise in the insert loop
TeamsPacing(p, responses, t1, t5) ==
    LET first == IF p.idle = NULL THEN <<>> ELSE <<p.idle>>
        second_sent == ~(responses[1].ok /\
                         InsertTeams({}, responses[1].stats).raised)
    IN  IF second_sent THEN Pacing(t5, first \o <<t1>>)
        ELSE Pacing(t1, first)

scrape_teams ==
    /\ \E responses \in [PwhlSeasons -> TeamResponses] :
          LET out == ScrapeTeams(teams, responses)
          IN  /\ teams' = out.table
              /\ raised' = out.raised
              /\ last_op' = Op("scrape_teams", responses)
              /\ \E l1 \in Latencies, l5 \in Latencies,
                     z1 \in Sleeps(responses[1]), z5 \in Sleeps(responses[5]) :
                     pacing' = TeamsPacing(pacing, responses,
                                           ApiCallTime(l1, z1),
                                           ApiCallTime(l5, z5))
    /\ UNCHANGED <<shots, skater_stats, goalie_stats, result, team_stats, columns, faceoffs, games, head_to_head>>

NextCatalog == scrape_teams

SpecCatalog == InitIngest /\ [][NextCatalog]_vars

\* the ids of the well-formed records of a response
RECURSIVE WellFormedIds(_)
WellFormedIds(recs) ==
    IF recs = <<>> THEN {}
    ELSE (IF IsInt(Head(recs)) THEN {Head(recs)} ELSE {}) \cup
         WellFormedIds(Tail(recs))

\* C21: in every ingestion routine a record with a missing or non-numeric
\* required field is skipped alone: after scrape_teams, every well-formed
\* record of every answered request is stored and nothing is raised.
C21_MalformedRecordSkippedAlone ==
    last_op.name = "scrape_teams" =>
        /\ ~raised
        /\ \A season_id \in PwhlSeasons :
              last_op.arg[season_id].ok =>
                  WellFormedIds(last_op.arg[season_id].stats) \subseteq teams

\* C22: when an optional numeric field of a stat record is absent or present
\* but empty, the record is still stored with that field as 0: after
\* scrape_skater_stats, every record of an answered request that carries its
\* player and team ids has a row, and a record whose goals field is absent or
\* empty and that is the last of its key has goals = 0.
C22_OptionalFieldDefaultsToZero ==
    last_op.name = "scrape_skater_stats" =>
        \A season_id \in PwhlSeasons :
            LET stats == last_op.arg[season_id].stats
            IN  last_op.arg[season_id].ok =>
                \A i \in DOMAIN stats :
                    stats[i][1] # NULL =>
                        LET key == <<stats[i][1], stats[i][2], season_id>>
                        IN  /\ key \in DOMAIN skater_stats
                            /\ (/\ stats[i][3] \in {NULL, Empty}
                                /\ \A j \in DOMAIN stats :
                                      j > i => stats[j][1] # stats[i][1])
                               => skater_stats[key].goals = 0

(***************************************************************************)
(* Column-adding routines.  columns is the set of derived columns that the *)
(* tables have; a row holds NULL in the field of a column its table does   *)
(* not have yet.  Each ALTER TABLE ... ADD COLUMN sits in its own          *)
(* try/except sqlite3.OperationalError, which is what SQLite raises for a  *)
(* duplicate column name.                                                  *)
(***************************************************************************)
Db(cols, ss, gs, ts) ==
    [columns |-> cols, skater_stats |-> ss, goalie_stats |-> gs,
     team_stats |-> ts]

AddColumn_recreate(db, table, column, default) ==
    [db EXCEPT !.columns = @ \cup {<<table, column>>},
               ![table] = [k \in DOMAIN @ |-> [@[k] EXCEPT ![column] = default]]]

\* ALTER TABLE table ADD COLUMN column ... DEFAULT default: the rows that
\* exist get the default in the new column; a column that is there raises
\* OperationalError, which the except clause passes over
AddColumn(db, table, column, default) ==
    IF <<table, column>> \in db.columns THEN db
    ELSE [db EXCEPT !.columns = @ \cup {<<table, column>>},
                    ![table] = [k \in DOMAIN @ |->
                                   [@[k] EXCEPT ![column] = default]]]

RECURSIVE AddColumns(_, _)
AddColumns(db, columns_to_add) ==
    IF columns_to_add = <<>> THEN db
    ELSE LET c == Head(columns_to_add)
         IN  AddColumns(AddColumn(db, c[1], c[2], c[3]), Tail(columns_to_add))

\* calculate_xg.py 79-88
XgColumns ==
    << <<"skater_stats", "xg", 0>>, <<"skater_stats", "goals_above_xg", 0>> >>

\* calculate_gsax.py 19
GsaxColumns == << <<"goalie_stats", "gsax", 0>> >>

\* calculate_advanced_stats.py 36-42, the team_stats columns of the list
\* (corsi_for, corsi_against, corsi_pct, pdo)
columns_to_add ==
    << <<"team_stats", "corsi_for", 0>>,
       <<"team_stats", "corsi_against", 0>>,
       <<"team_stats", "corsi_pct", CorsiPctDefault>>,
       <<"team_stats", "pdo", PdoDefault>> >>

AddColumnsStep(name, list) ==
    LET db == AddColumns(Db(columns, skater_stats, goalie_stats, team_stats),
                         list)
    IN  /\ columns' = db.columns
        /\ skater_stats' = db.skater_stats
        /\ goalie_stats' = db.goalie_stats
        /\ team_stats' = db.team_stats
        /\ last_op' = Op(name, 0)
        /\ raised' = FALSE
        /\ UNCHANGED <<shots, result, teams, pacing, faceoffs, games, head_to_head>>

add_xg_column == AddColumnsStep("add_xg_column", XgColumns)

add_gsax_column == AddColumnsStep("add_gsax_column", GsaxColumns)

add_columns == AddColumnsStep("add_columns", columns_to_add)

\* the value a row holds in a derived column: v when the table has the
\* column, NULL otherwise
ColumnValue(cols, table, column, v) ==
    IF <<table, column>> \in cols THEN v ELSE NULL

\* Schema specification: a store with one row per table whose tables have
\* any subset of the derived columns, filled by earlier derivation runs.
InitSchema ==
    /\ columns \in SUBSET DerivedColumns
    /\ skater_stats = (<<1, 1, 1>> :>
           [SkaterRow(2, 10) EXCEPT
               !.xg = ColumnValue(columns, "skater_stats", "xg", 250000),
               !.goals_above_xg =
                   ColumnValue(columns, "skater_stats", "goals_above_xg", 1750000)])
    /\ goalie_stats = (<<2, 1, 1>> :>
           [GoalieRow(10, 100, 8, 920000) EXCEPT
               !.gsax = ColumnValue(columns, "goalie_stats", "gsax", 250000)])
    /\ team_stats = (<<1, 1>> :>
           [goals_for |-> 2, goals_against |-> 1,
            corsi_for |-> ColumnValue(columns, "team_stats", "corsi_for", 3),
            corsi_against |->
                ColumnValue(columns, "team_stats", "corsi_against", 1),
            corsi_pct |->
                ColumnValue(columns, "team_stats", "corsi_pct", 75 * Unit),
            pdo |-> ColumnValue(columns, "team_stats", "pdo", 101 * Unit)])
    /\ shots = <<>>
    /\ last_op = Op("init", 0)
    /\ raised = FALSE
    /\ result = NoResult
    /\ teams = {}
    /\ pacing = NoRequest
    /\ faceoffs = <<>>
    /\ games = <<>>
    /\ head_to_head = <<>>

NextSchema ==
    \/ add_xg_column
    \/ add_gsax_column
    \/ add_columns

SpecSchema == InitSchema /\ [][NextSchema]_vars

\* the columns a routine is to add
RoutineColumns(name) ==
    LET list == IF name = "add_xg_column" THEN XgColumns
                ELSE IF name = "add_gsax_column" THEN GsaxColumns
                ELSE columns_to_add
    IN  {<<list[i][1], list[i][2]>> : i \in DOMAIN list}

\* the rows of a table keep their keys and every value of a column that the
\* table had
RowsKept(tname, cols, old, new) ==
    /\ DOMAIN new = DOMAIN old
    /\ \A k \in DOMAIN old :
          \A f \in DOMAIN old[k] :
              (<<tname, f>> \in cols \/ <<tname, f>> \notin DerivedColumns)
                  => new[k][f] = old[k][f]

\* C23: a column-adding routine called when some or all of its columns
\* exist raises nothing, adds every column that is missing, and leaves all
\* existing rows and their values unchanged.
C23_SchemaDriftIsNoOp ==
    [][ last_op'.name \in {"add_xg_column", "add_gsax_column", "add_columns"} =>
            /\ ~raised'
            /\ columns' = columns \cup RoutineColumns(last_op'.name)
            /\ RowsKept("skater_stats", columns, skater_stats, skater_stats')
            /\ RowsKept("goalie_stats", columns, goalie_stats, goalie_stats')
            /\ RowsKept("team_stats", columns, team_stats, team_stats')
      ]_vars

\* C23 witness: add_xg_column has run on a table that had xg but not
\* goals_above_xg: the stored xg is kept, the new column holds its default
C23_Witness ==
    /\ last_op.name = "add_xg_column"
    /\ skater_stats[<<1, 1, 1>>].xg = 250000
    /\ skater_stats[<<1, 1, 1>>].goals_above_xg = 0
    /\ <<"team_stats", "pdo">> \notin columns

\* C24: between any two consecutive requests a scraper sends to the API the
\* fixed delay has elapsed, whether the earlier request succeeded or failed:
\* every gap between consecutive requests is at least ApiDelay.
C24_DelayBetweenRequests ==
    \A i \in DOMAIN pacing.gaps : pacing.gaps[i] >= ApiDelay

(***************************************************************************)
(* Derivation specification: a store whose shots are ingested and scored,  *)
(* with or without the aggregate row of one of the shot groups; then the   *)
(* derivation passes that write the aggregate tables, in any order.        *)
(***************************************************************************)
InitDerive ==
    /\ shots \in {<<>>} \cup {ScoreAll(csv) : csv \in ShotFiles}
    /\ \E without \in SUBSET {<<1, 2, 1>>} :
          skater_stats =
              [k \in { <<1, 1, 1>>, <<1, 2, 1>>, <<2, 1, 1>>, <<1, 1, 8>>,
                       <<2, 2, 8>> } \ without |->
                  IF k = <<1, 1, 1>> THEN SkaterRow(2, 10)
                  ELSE IF k = <<1, 2, 1>> THEN SkaterRow(1, 25)
                  ELSE IF k = <<2, 1, 1>> THEN SkaterRow(0, 4)
                  ELSE IF k = <<1, 1, 8>> THEN SkaterRow(3, 30)
                  ELSE SkaterRow(1, 0)]
    /\ \E without \in SUBSET {<<3, 1, 1>>} :
          goalie_stats =
              [k \in { <<3, 2, 1>>, <<3, 1, 1>>, <<3, 2, 8>> } \ without |->
                  IF k = <<3, 2, 1>> THEN GoalieRow(10, 100, 8, 920000)
                  ELSE IF k = <<3, 1, 1>> THEN GoalieRow(3, 20, 2, 900000)
                  ELSE GoalieRow(5, 50, 4, 920000)]
    /\ last_op = Op("init", 0)
    /\ raised = FALSE
    /\ result = NoResult
    /\ team_stats = <<>>
    /\ teams = {}
    /\ columns = DerivedColumns
    /\ pacing = NoRequest
    /\ faceoffs = <<>>
    /\ games = <<>>
    /\ head_to_head = <<>>

NextDerive ==
    \/ aggregate_xg_by_player
    \/ xGEstimator_run
    \/ calculate_gsax_from_shots
    \/ estimate_gsax_for_season_8

SpecDerive == InitDerive /\ [][NextDerive]_vars

DerivationPasses ==
    { "aggregate_xg_by_player", "estimate_season_8_xg",
      "calculate_gsax_from_shots", "estimate_gsax_for_season_8" }

\* C25: the skater xG aggregation, the season-8 xG estimation and both GSAx
\* passes never append: they leave the key sets of skater_stats and
\* goalie_stats unchanged (a shot group without an aggregate row creates
\* none) and change no column other than xg, goals_above_xg and gsax.
C25_DerivationNeverAppends ==
    [][ last_op'.name \in DerivationPasses =>
            /\ DOMAIN skater_stats' = DOMAIN skater_stats
            /\ DOMAIN goalie_stats' = DOMAIN goalie_stats
            /\ \A k \in DOMAIN skater_stats :
                  /\ skater_stats'[k].goals = skater_stats[k].goals
                  /\ skater_stats'[k].shots = skater_stats[k].shots
            /\ \A k \in DOMAIN goalie_stats :
                  [goalie_stats'[k] EXCEPT !.gsax = 0] =
                      [goalie_stats[k] EXCEPT !.gsax = 0]
            /\ shots' = shots
            /\ team_stats' = team_stats
      ]_vars

\* C25 witness: both shot-driven passes have run over shots of player 1 for
\* team 2 on goalie 3 of team 1, neither of which has an aggregate row, and
\* they have written the rows that exist
C25_Witness ==
    /\ last_op.name = "calculate_gsax_from_shots"
    /\ \E e \in DOMAIN shots :
          /\ shots[e].player_id = 1 /\ shots[e].team_id = 2
          /\ shots[e].goalie_id = 3 /\ shots[e].opponent_team_id = 1
          /\ shots[e].season_id = 1
    /\ <<1, 2, 1>> \notin DOMAIN skater_stats
    /\ <<3, 1, 1>> \notin DOMAIN goalie_stats
    /\ skater_stats[<<1, 1, 1>>].xg > 0
    /\ goalie_stats[<<3, 2, 1>>].gsax # 0

(***************************************************************************)
(* calculate_faceoff_stats (calculate_advanced_stats.py 161-213).  The     *)
(* query groups the faceoffs by player and by f.home_team_id and           *)
(* f.away_team_id.  schema.sql may or may not declare these two columns;   *)
(* the store starts with either schema.  Without them the SELECT raises    *)
(* sqlite3.OperationalError, which nothing catches; with them every row of *)
(* the ingestion holds NULL there.                                         *)
(***************************************************************************)
FaceoffTeamColumns ==
    {<<"faceoffs", "home_team_id">>, <<"faceoffs", "away_team_id">>}

\* lines 166-175: the faceoffs of the season the player took at home for the team
HomeFaceoffs(fo, k) ==
    {e \in DOMAIN fo : /\ fo[e].season_id = k[3]
                       /\ fo[e].home_player_id # NULL
                       /\ fo[e].home_player_id = k[1]
                       /\ fo[e].home_team_id = k[2]}

\* lines 177-186: the same as the away player
AwayFaceoffs(fo, k) ==
    {e \in DOMAIN fo : /\ fo[e].season_id = k[3]
                       /\ fo[e].away_player_id # NULL
                       /\ fo[e].away_player_id = k[1]
                       /\ fo[e].away_team_id = k[2]}

\* lines 188-210: totals and wins of both sides are added per (player,
\* team), then the row of that key and season is updated; the percentage
\* is in millionths of a percentage point
FaceoffStats(ss, fo, season_id) ==
    [k \in DOMAIN ss |->
        LET home == HomeFaceoffs(fo, k)
            away == AwayFaceoffs(fo, k)
            total == Cardinality(home) + Cardinality(away)
            wins == Cardinality({e \in home : fo[e].home_win = 1})
                    + Cardinality({e \in away : fo[e].home_win = 0})
        IN  IF k[3] = season_id /\ total > 0
            THEN [ss[k] EXCEPT !.faceoff_pct = (100 * Unit * wins) \div total,
                               !.faceoff_attempts = total,
                               !.faceoff_wins = wins]
            ELSE ss[k]]

calculate_faceoff_stats ==
    /\ \E season_id \in PwhlSeasons :
          /\ skater_stats' =
                 IF FaceoffTeamColumns \subseteq columns
                 THEN FaceoffStats(skater_stats, faceoffs, season_id)
                 ELSE skater_stats
          /\ last_op' = Op("calculate_faceoff_stats", season_id)
    /\ raised' = ~(FaceoffTeamColumns \subseteq columns)
    /\ UNCHANGED <<shots, goalie_stats, result, team_stats, teams, columns,
                   pacing, faceoffs, games, head_to_head>>

\* Faceoff specification: skater rows of players 1 and 2, a faceoffs
\* table with or without team columns, no play-by-play data; then
\* play-by-play ingestion and the faceoff pass in any order.
InitFaceoff ==
    /\ columns \in {DerivedColumns, DerivedColumns \cup FaceoffTeamColumns}
    /\ \E keys \in SUBSET {<<1, 1, 1>>, <<2, 2, 1>>, <<1, 1, 5>>} :
          skater_stats = [k \in keys |-> SkaterRow(k[1], 10 * k[2])]
    /\ faceoffs = <<>>
    /\ shots = <<>>
    /\ goalie_stats = <<>>
    /\ team_stats = <<>>
    /\ last_op = Op("init", 0)
    /\ raised = FALSE
    /\ result = NoResult
    /\ teams = {}
    /\ pacing = NoRequest
    /\ games = <<>>
    /\ head_to_head = <<>>

NextFaceoff ==
    \/ scrape_play_by_play
    \/ calculate_faceoff_stats

SpecFaceoff == InitFaceoff /\ [][NextFaceoff]_vars

\* the faceoffs of a season that a player took, on either side
FaceoffsTaken(fo, player_id, season_id) ==
    {e \in DOMAIN fo : /\ fo[e].season_id = season_id
                       /\ player_id \in {fo[e].home_player_id,
                                         fo[e].away_player_id}}

FaceoffsWon(fo, player_id, season_id) ==
    {e \in FaceoffsTaken(fo, player_id, season_id) :
        \/ fo[e].home_player_id = player_id /\ fo[e].home_win = 1
        \/ fo[e].away_player_id = player_id /\ fo[e].home_win = 0}

\* C26: after faceoffs have been ingested and calculate_faceoff_stats(season)
\* has run, every skater_stats row of the season whose player took a faceoff
\* holds the player's faceoff count, the number won and 100 * wins /
\* attempts (stated for players with one team in the season, whose faceoffs
\* are all for that team).
C26_FaceoffStatsFromTable ==
    (last_op.name = "calculate_faceoff_stats" /\ faceoffs # <<>>) =>
        \A k \in DOMAIN skater_stats :
            LET taken == FaceoffsTaken(faceoffs, k[1], k[3])
                won == FaceoffsWon(faceoffs, k[1], k[3])
            IN  (/\ k[3] = last_op.arg
                 /\ taken # {}
                 /\ \A j \in DOMAIN skater_stats :
                       (j[1] = k[1] /\ j[3] = k[3]) => j = k)
                => /\ ~raised
                   /\ skater_stats[k].faceoff_attempts = Cardinality(taken)
                   /\ skater_stats[k].faceoff_wins = Cardinality(won)
                   /\ skater_stats[k].faceoff_pct =
                          (100 * Unit * Cardinality(won)) \div Cardinality(taken)

(***************************************************************************)
(* Re-ingestion specification: the store of the derivation specification   *)
(* (shots ingested and scored); then the skater derivation passes and the  *)
(* skater ingestion in any order.                                          *)
(***************************************************************************)
NextReingest ==
    \/ aggregate_xg_by_player
    \/ xGEstimator_run
    \/ scrape_skater_stats

SpecReingest == InitDerive /\ [][NextReingest]_vars

\* the keys under which a response stores a row
RECURSIVE StoredKeys(_, _)
StoredKeys(season_id, stats) ==
    IF stats = <<>> THEN {}
    ELSE (IF StatRaises(Head(stats)) THEN {}
          ELSE {<<Head(stats)[1], Head(stats)[2], season_id>>})
         \cup StoredKeys(season_id, Tail(stats))

ReingestedKeys(responses) ==
    UNION {IF responses[s].ok THEN StoredKeys(s, responses[s].stats) ELSE {} :
              s \in PwhlSeasons}

\* C27: ingestion upserts replace whole rows: after skater_stats rows are
\* re-ingested by INSERT OR REPLACE, the derived columns of every re-ingested
\* row hold their column defaults, whatever the derivation passes had
\* written; the other rows keep theirs.
C27_ReingestResetsDerived ==
    [][ last_op'.name = "scrape_skater_stats" =>
            /\ \A k \in ReingestedKeys(last_op'.arg) :
                  /\ k \in DOMAIN skater_stats'
                  /\ skater_stats'[k].xg = 0
                  /\ skater_stats'[k].goals_above_xg = 0
            /\ \A k \in DOMAIN skater_stats \ ReingestedKeys(last_op'.arg) :
                  skater_stats'[k] = skater_stats[k]
      ]_vars

\* C27 witness: the aggregation has written the rows of player 1 (the row
\* for team 2 still holds its xg), then the row for team 1 was re-ingested
\* and holds the default although its shots are in the shots table
C27_Witness ==
    /\ last_op.name = "scrape_skater_stats"
    /\ <<1, 1, 1>> \in ReingestedKeys(last_op.arg)
    /\ SkaterGroup(<<1, 1, 1>>, shots) # {}
    /\ Sum(XgOf(shots), SkaterGroup(<<1, 1, 1>>, shots)) > 0
    /\ skater_stats[<<1, 1, 1>>].xg = 0
    /\ <<1, 2, 1>> \in DOMAIN skater_stats
    /\ skater_stats[<<1, 2, 1>>].xg > 0

\* the keys of the records the source holds for the units of teams of the
\* table whose call succeeded
FetchedKeys(records(_, _), tm, ok) ==
    UNION { {<<records(u[2], u[1])[i][1], u[2], u[1]>> :
                i \in DOMAIN records(u[2], u[1])} :
            u \in {v \in FixUnits : v[2] \in tm /\ ok[v]} }

\* C28: StatsFixer.run deletes all skater_stats and goalie_stats rows before
\* any fetch, so afterwards the tables hold exactly the rows stored from
\* this run's successful fetches: a unit whose fetch failed has no rows,
\* whatever it had before, and both tables are empty if every fetch failed.
C28_FixerLeavesOnlyFetchedRows ==
    [][ last_op'.name = "StatsFixer.run" =>
            /\ DOMAIN skater_stats' =
                   FetchedKeys(TeamSkaters, teams, last_op'.arg.skaters)
            /\ DOMAIN goalie_stats' =
                   FetchedKeys(TeamGoalies, teams, last_op'.arg.goalies)
            /\ \A u \in FixUnits :
                  /\ ~last_op'.arg.skaters[u] => UnitKeys(skater_stats', u) = {}
                  /\ ~last_op'.arg.goalies[u] => UnitKeys(goalie_stats', u) = {}
            /\ ((\A u \in FixUnits : ~last_op'.arg.skaters[u] /\ ~last_op'.arg.goalies[u])
                   => skater_stats' = <<>> /\ goalie_stats' = <<>>)
      ]_vars

\* C28 witness: a run over both teams in which every skater call failed and
\* the goalie calls of season 7 succeeded: no skater row is left, the goalie
\* table holds the two season-7 rows only
C28_Witness ==
    /\ last_op.name = "StatsFixer.run"
    /\ teams = {1, 8}
    /\ \A u \in FixUnits : ~last_op.arg.skaters[u]
    /\ \A u \in FixUnits : last_op.arg.goalies[u] <=> u[1] = 7
    /\ skater_stats = <<>>
    /\ DOMAIN goalie_stats = {<<13, 1, 7>>, <<83, 8, 7>>}

(***************************************************************************)
(* Games and head-to-head records.  games maps game_id to the row          *)
(* scrape_games stores (scrape_pwhl.py 270-322); head_to_head maps         *)
(* <<season_id, team1_id, team2_id>>, the UNIQUE constraint of the table   *)
(* (additional_analytics.py 168-184), to the counts of the row.  The       *)
(* AUTOINCREMENT id of a row is not modelled.                              *)
(***************************************************************************)
GameRow(season_id, home, away, hg, ag, status) ==
    [season_id |-> season_id, home_team_id |-> home, away_team_id |-> away,
     home_goals |-> hg, away_goals |-> ag, game_status |-> status]

\* a record of the schedule feed: <<game_id, row>>, game_id NULL when the
\* record lacks the field
GameFeed ==
    [ g1 |-> <<1, GameRow(1, 1, 2, 3, 1, "Final")>>,
      g1_live |-> <<1, GameRow(1, 1, 2, 3, 1, "In Progress")>>,
      g1_moved |-> <<1, GameRow(1, 1, 3, 3, 1, "Final")>>,
      g2 |-> <<2, GameRow(1, 2, 1, 2, 2, "Final")>>,
      g3 |-> <<3, GameRow(1, 2, 1, 1, 4, "Final")>>,
      g5 |-> <<5, GameRow(5, 2, 1, 0, 1, "Final")>>,
      bad |-> <<NULL, GameRow(5, 1, 2, 0, 0, "Final")>> ]

\* what the source may answer to the schedule request of a season
GameResponses(season_id) ==
    IF season_id = 1
    THEN { ApiFailure,
           Response(TRUE, <<GameFeed.g1_live>>),
           Response(TRUE, <<GameFeed.g1>>),
           Response(TRUE, <<GameFeed.g1, GameFeed.g2>>),
           Response(TRUE, <<GameFeed.g1_moved>>),
           Response(TRUE, <<GameFeed.g1_moved, GameFeed.g2, GameFeed.g3>>) }
    ELSE { ApiFailure,
           Response(TRUE, <<GameFeed.bad, GameFeed.g5>>) }

\* lines 281-319: each record in its own try/except, INSERT OR REPLACE
\* under game_id; int(game['game_id']) raises for a record without it
RECURSIVE StoreGames(_, _)
StoreGames(gm, recs) ==
    IF recs = <<>> THEN gm
    ELSE LET game == Head(recs)
         IN  StoreGames(
                 IF game[1] = NULL THEN gm
                 ELSE [g \in DOMAIN gm \cup {game[1]} |->
                          IF g = game[1] THEN game[2] ELSE gm[g]],
                 Tail(recs))

\* lines 268-322: seasons in order, a failed call skips the season
ScrapeGames(gm, responses) ==
    LET after1 == IF responses[1].ok THEN StoreGames(gm, responses[1].stats)
                  ELSE gm
    IN  IF responses[5].ok THEN StoreGames(after1, responses[5].stats)
        ELSE after1

scrape_games ==
    /\ \E r1 \in GameResponses(1), r5 \in GameResponses(5) :
          /\ games' = ScrapeGames(games, (1 :> r1) @@ (5 :> r5))
          /\ last_op' = Op("scrape_games", 0)
    /\ raised' = FALSE
    /\ UNCHANGED <<shots, skater_stats, goalie_stats, result, team_stats,
                   teams, columns, pacing, faceoffs, head_to_head>>

\* additional_analytics.py 188-192: the games with game_status = 'Final'
FinalGames(gm) == {g \in DOMAIN gm : gm[g].game_status = "Final"}

\* lines 200-208: the key of a game, the lower team id first
HthKey(game) ==
    IF game.home_team_id < game.away_team_id
    THEN <<game.season_id, game.home_team_id, game.away_team_id>>
    ELSE <<game.season_id, game.away_team_id, game.home_team_id>>

\* lines 202-207: the goals of team1 and of team2 in a game
T1Goals(game) ==
    IF game.home_team_id < game.away_team_id THEN game.home_goals
    ELSE game.away_goals

T2Goals(game) ==
    IF game.home_team_id < game.away_team_id THEN game.away_goals
    ELSE game.home_goals

\* lines 196-225: the record accumulated for a key
HthRecord(gm, key) ==
    LET played == {g \in FinalGames(gm) : HthKey(gm[g]) = key}
    IN  [team1_wins |-> Cardinality({g \in played : T1Goals(gm[g]) > T2Goals(gm[g])}),
         team2_wins |-> Cardinality({g \in played : T2Goals(gm[g]) > T1Goals(gm[g])}),
         ties |-> Cardinality({g \in played : T1Goals(gm[g]) = T2Goals(gm[g])}),
         team1_goals |-> Sum([g \in played |-> T1Goals(gm[g])], played),
         team2_goals |-> Sum([g \in played |-> T2Goals(gm[g])], played)]

\* lines 228-234: INSERT OR REPLACE of every accumulated record; CREATE
\* TABLE IF NOT EXISTS keeps the rows of earlier runs
CalculateHeadToHead(hth, gm) ==
    LET keys == {HthKey(gm[g]) : g \in FinalGames(gm)}
    IN  [k \in DOMAIN hth \cup keys |->
            IF k \in keys THEN HthRecord(gm, k) ELSE hth[k]]

calculate_head_to_head ==
    /\ head_to_head' = CalculateHeadToHead(head_to_head, games)
    /\ last_op' = Op("calculate_head_to_head", 0)
    /\ raised' = FALSE
    /\ UNCHANGED <<shots, skater_stats, goalie_stats, result, team_stats,
                   teams, columns, pacing, faceoffs, games>>

\* Head-to-head specification: an empty store; then game ingestion and the
\* head-to-head pass in any order.
InitHth ==
    /\ games = <<>>
    /\ head_to_head = <<>>
    /\ shots = <<>>
    /\ skater_stats = <<>>
    /\ goalie_stats = <<>>
    /\ team_stats = <<>>
    /\ faceoffs = <<>>
    /\ last_op = Op("init", 0)
    /\ raised = FALSE
    /\ result = NoResult
    /\ teams = {}
    /\ columns = DerivedColumns
    /\ pacing = NoRequest

NextHth ==
    \/ scrape_games
    \/ calculate_head_to_head

SpecHth == InitHth /\ [][NextHth]_vars

\* the Final games of a season between two teams, whichever was at home
GamesBetween(gm, season_id, a, b) ==
    {g \in DOMAIN gm : /\ gm[g].game_status = "Final"
                       /\ gm[g].season_id = season_id
                       /\ {gm[g].home_team_id, gm[g].away_team_id} = {a, b}}

GoalsOf(gm, g, team) ==
    IF gm[g].home_team_id = team THEN gm[g].home_goals ELSE gm[g].away_goals

\* every row is the record of the Final games of its pair
HthRowsRight(hth, gm) ==
    \A k \in DOMAIN hth :
        LET played == GamesBetween(gm, k[1], k[2], k[3])
        IN  /\ k[2] <= k[3]
            /\ hth[k].team1_wins + hth[k].team2_wins + hth[k].ties =
                   Cardinality(played)
            /\ hth[k].team1_goals =
                   Sum([g \in played |-> GoalsOf(gm, g, k[2])], played)
            /\ hth[k].team2_goals =
                   Sum([g \in played |-> GoalsOf(gm, g, k[3])], played)

\* C29: after calculate_head_to_head the table has exactly one row per
\* (season, unordered team pair) with at least one Final game; in every row
\* team1_id <= team2_id, wins and ties add up to the number of Final games
\* of the pair, and the goals are the sums of the respective team.
C29_HeadToHeadRows ==
    last_op.name = "calculate_head_to_head" =>
        /\ \A k \in DOMAIN head_to_head :
              GamesBetween(games, k[1], k[2], k[3]) # {}
        /\ \A g \in FinalGames(games) : HthKey(games[g]) \in DOMAIN head_to_head
        /\ HthRowsRight(head_to_head, games)

\* the product base * T * Q of the stated tables, in millionths
StatedProduct(y, st, q) ==
    (IF y < 100 \/ y > 200 THEN 4 ELSE 12)
        * StatedTypeMult(st) * StatedQualityMult(q)

\* the inputs the claim names: a tip of quality 1 or 5 from the high-danger
\* zone
QualityTipInZone(y, st, q) ==
    st = 6 /\ q \in {1, 5} /\ y >= 100 /\ y <= 200

\* C30: the 0.25 cap is binding for exactly one class of inputs: the scored
\* value is the capped 0.25 when the shot is a tip (type 6) of quality 1 or 5
\* from the high-danger zone, whose product exceeds the cap; for every other
\* input the product is strictly below 0.25 and is the scored value.
C30_CapBindsOnlyForQualityTips ==
    Scored =>
        \A e \in DOMAIN shots :
            LET y == shots[e].y_location
                st == shots[e].shot_type
                q == shots[e].quality
            IN  IF QualityTipInZone(y, st, q)
                THEN /\ StatedProduct(y, st, q) > 250000
                     /\ shots[e].xg = 250000
                ELSE /\ StatedProduct(y, st, q) < 250000
                     /\ shots[e].xg = StatedProduct(y, st, q)

\* C30 witness: a scored quality tip from the edge of the zone, capped
C30_Witness ==
    /\ Scored
    /\ shots[1].shot_type = 6
    /\ shots[1].quality = 5
    /\ shots[1].y_location = 100
    /\ shots[1].xg = 250000
    /\ StatedProduct(100, 6, 5) = 251160

====
